---- MODULE Spec2Model ----
(***************************************************************************)
(* PromptGPT OS: the page-based navigation state machine of PromptGPTOS    *)
(* (main.py), the input handling of NavigationHandler (utils/navigation.py)*)
(* and the prompt generator (utils/prompt_generator.py).                   *)
(*                                                                         *)
(* Text is modelled by TLA+ strings handled character by character with    *)
(* Len, SubSeq and \o, so that trimming, lower-casing, sanitising,         *)
(* substring search and replacement are computed as Python computes them.  *)
(***************************************************************************)
EXTENDS Integers, Sequences, FiniteSets, TLC

(***************************************************************************)
(* Python string primitives                                                *)
(***************************************************************************)

\* s[i] for a 1-based position i
CharAt(s, i) == SubSeq(s, i, i)

UpperLetters == "ABCDEFGHIJKLMNOPQRSTUVWXYZ"

LowerLetters == "abcdefghijklmnopqrstuvwxyz"

\* position of the one-character string c in alphabet, 0 when absent
IndexIn(alphabet, c) ==
    IF \E i \in 1..Len(alphabet) : CharAt(alphabet, i) = c
    THEN CHOOSE i \in 1..Len(alphabet) : CharAt(alphabet, i) = c
    ELSE 0

UpperSet == {CharAt(UpperLetters, i) : i \in 1..Len(UpperLetters)}

LowerSet == {CharAt(LowerLetters, i) : i \in 1..Len(LowerLetters)}

ToLower == [c \in UpperSet |-> CharAt(LowerLetters, IndexIn(UpperLetters, c))]

ToUpper == [c \in LowerSet |-> CharAt(UpperLetters, IndexIn(LowerLetters, c))]

IsLetter(c) == c \in UpperSet \/ c \in LowerSet

LowerChar(c) == IF c \in UpperSet THEN ToLower[c] ELSE c

UpperChar(c) == IF c \in LowerSet THEN ToUpper[c] ELSE c

RECURSIVE LowerRange(_, _, _)
\* the lower-cased characters lo..hi of s (halving keeps the nesting shallow)
LowerRange(s, lo, hi) ==
    IF lo > hi THEN ""
    ELSE IF lo = hi THEN LowerChar(CharAt(s, lo))
    ELSE LET mid == (lo + hi) \div 2 IN
         LowerRange(s, lo, mid) \o LowerRange(s, mid + 1, hi)

\* str.lower()
Lower(s) == LowerRange(s, 1, Len(s))

IsSpace(c) == c \in {" ", "\t", "\n", "\r"}

RECURSIVE LStrip(_)
LStrip(s) == IF s # "" /\ IsSpace(CharAt(s, 1)) THEN LStrip(Tail(s)) ELSE s

RECURSIVE RStrip(_)
RStrip(s) ==
    IF s # "" /\ IsSpace(CharAt(s, Len(s)))
    THEN RStrip(SubSeq(s, 1, Len(s) - 1))
    ELSE s

\* str.strip()
Strip(s) == RStrip(LStrip(s))

\* sub in s
Contains(s, sub) ==
    \E i \in 1..(Len(s) - Len(sub) + 1) : SubSeq(s, i, i + Len(sub) - 1) = sub

StartsWith(s, prefix) ==
    Len(s) >= Len(prefix) /\ SubSeq(s, 1, Len(prefix)) = prefix

\* the positions at which sub occurs in s
Occurrences(s, sub) ==
    {i \in 1..(Len(s) - Len(sub) + 1) : SubSeq(s, i, i + Len(sub) - 1) = sub}

\* s.find(sub) as a 1-based position, for a sub that occurs in s
FirstOccurrence(s, sub) ==
    CHOOSE i \in Occurrences(s, sub) : \A j \in Occurrences(s, sub) : i <= j

RECURSIVE Replace(_, _, _)
\* s.replace(old, new) for a non-empty old: leftmost, non-overlapping
Replace(s, old, new) ==
    IF Occurrences(s, old) = {} THEN s
    ELSE LET i == FirstOccurrence(s, old) IN
         SubSeq(s, 1, i - 1) \o new
            \o Replace(SubSeq(s, i + Len(old), Len(s)), old, new)

RECURSIVE TitleRange(_, _, _)
\* str.title() on the characters lo..hi of s: a letter that follows a
\* non-letter is upper-cased, every other letter is lower-cased
TitleRange(s, lo, hi) ==
    IF lo > hi THEN ""
    ELSE IF lo = hi
         THEN IF lo > 1 /\ IsLetter(CharAt(s, lo - 1))
              THEN LowerChar(CharAt(s, lo))
              ELSE UpperChar(CharAt(s, lo))
    ELSE LET mid == (lo + hi) \div 2 IN
         TitleRange(s, lo, mid) \o TitleRange(s, mid + 1, hi)

Title(s) == TitleRange(s, 1, Len(s))

\* number of lines of s (split at "\n") that start with prefix
CountLines(s, prefix) ==
    Cardinality({i \in Occurrences(s, prefix) :
                    i = 1 \/ CharAt(s, i - 1) = "\n"})

(***************************************************************************)
(* NavigationHandler (utils/navigation.py)                                 *)
(***************************************************************************)

\* Python's None and the empty string are both falsy; None is written ""
None == ""

navigation_commands ==
    {"back", "home", "restart", "quit", "next", "skip", "save", "help"}

shortcuts ==
    [c \in {"b", "h", "r", "q", "n", "s", "sk", "?"} |->
        CASE c = "b" -> "back"
          [] c = "h" -> "home"
          [] c = "r" -> "restart"
          [] c = "q" -> "quit"
          [] c = "n" -> "next"
          [] c = "s" -> "save"
          [] c = "sk" -> "skip"
          [] c = "?" -> "help"]

parse_navigation_command(user_input) ==
    IF user_input = "" THEN None
    ELSE LET w == Strip(Lower(user_input)) IN
         IF w \in navigation_commands THEN w
         ELSE IF w \in DOMAIN shortcuts THEN shortcuts[w]
         ELSE None

SanitizeMaxLen == 1000

HarmfulChars == {"<", ">", "\"", "'"}

RECURSIVE RemoveRange(_, _, _, _)
\* the characters lo..hi of s that are not in chars
RemoveRange(s, chars, lo, hi) ==
    IF lo > hi THEN ""
    ELSE IF lo = hi
         THEN IF CharAt(s, lo) \in chars THEN "" ELSE CharAt(s, lo)
    ELSE LET mid == (lo + hi) \div 2 IN
         RemoveRange(s, chars, lo, mid) \o RemoveRange(s, chars, mid + 1, hi)

\* re.sub(r'[<>"\']', '', s)
RemoveChars(s, chars) == RemoveRange(s, chars, 1, Len(s))

sanitize_input(user_input) ==
    IF user_input = "" THEN ""
    ELSE LET sanitized == RemoveChars(user_input, HarmfulChars) IN
         Strip(SubSeq(sanitized, 1,
                      IF Len(sanitized) < SanitizeMaxLen
                      THEN Len(sanitized) ELSE SanitizeMaxLen))

\* rich's Prompt.ask without choices: the default on an empty line,
\* otherwise the line with surrounding whitespace removed
PromptAsk(line, default) == IF line = "" THEN default ELSE Strip(line)

\* rich's Prompt.ask with choices accepts the trimmed line only when it is
\* one of the choices, and asks again otherwise
PromptAccepts(line, choices, default) ==
    IF line = "" THEN default # None ELSE Strip(line) \in choices

\* get_user_choice(allow_empty=True, valid_choices=None) asks again, without
\* returning, exactly when the line is the help command
get_user_choice_asks_again(line) ==
    LET user_input == PromptAsk(line, "") IN
    user_input # "" /\ parse_navigation_command(user_input) = "help"

\* the value get_user_choice(allow_empty=True, valid_choices=None) returns
get_user_choice(line) ==
    LET user_input == PromptAsk(line, "") IN
    IF user_input = "" THEN ""
    ELSE IF parse_navigation_command(user_input) # None
         THEN parse_navigation_command(user_input)
         ELSE sanitize_input(user_input)

(***************************************************************************)
(* Static configuration (config/settings.py)                               *)
(***************************************************************************)

CategoryKeys == <<"code", "image", "music", "text", "video">>

CATEGORIES ==
    [c \in {"code", "image", "music", "text", "video"} |->
        CASE c = "code" ->
               <<"web_app", "mobile_app", "script", "backend", "debug",
                 "code_analysis">>
          [] c = "image" ->
               <<"fantasy", "social_media", "meme", "business", "marketing",
                 "infographic", "character">>
          [] c = "music" ->
               <<"edm", "hip_hop", "country", "rnb_soul", "experimental",
                 "vocal", "commercial", "voice_over">>
          [] c = "text" ->
               <<"business", "blog", "social_media", "academic", "fiction",
                 "nonfiction", "marketing">>
          [] c = "video" ->
               <<"documentary", "commercial", "tutorial", "entertainment",
                 "explainer", "social_media">>]

(***************************************************************************)
(* PromptGenerator (utils/prompt_generator.py)                             *)
(***************************************************************************)

get_generic_questions ==
    << "What is the main purpose or goal of your content?",
       "Who is your target audience?",
       "What style or tone do you prefer?",
       "What are the key requirements or specifications?",
       "Are there any constraints or limitations?",
       "What is the intended use or application?",
       "Do you have any specific preferences for the output?",
       "What makes this content unique or special?",
       "Are there any examples or references you'd like to follow?",
       "What success criteria should the AI consider?" >>

\* get_fallback_questions: category -> subcategory -> list of questions
get_fallback_questions ==
    [c \in {"code", "image"} |->
        IF c = "code"
        THEN [sc \in {"web_app"} |->
              << "What is the primary purpose of your web application?",
                 "Who is your target audience?",
                 "What main features should the application have?",
                 "What technology stack do you prefer?",
                 "Do you need user authentication?",
                 "What is the expected user interface style?",
                 "Do you need a database? What type?",
                 "What are the performance requirements?",
                 "Do you need responsive design for mobile devices?",
                 "What are the security considerations?" >>]
        ELSE [sc \in {"fantasy"} |->
              << "What is the main subject of the image?",
                 "What style of fantasy art do you prefer?",
                 "What is the setting or environment?",
                 "What mood or atmosphere should the image convey?",
                 "What colors should be prominent?",
                 "What level of detail do you want?",
                 "Should there be any characters? Describe them.",
                 "What lighting conditions do you want?",
                 "What size/resolution do you need?",
                 "Any specific artistic influences or references?" >>]]

\* load_questions: the catalog used when data/questions.json cannot be read
questions_data == get_fallback_questions

\* dict lookup d[k1][k2] raises KeyError unless both keys are present
HasEntry(d, k1, k2) == k1 \in DOMAIN d /\ k2 \in DOMAIN d[k1]

\* settings_manager.get_custom_questions: [] when nothing was uploaded
get_custom_questions(customQuestions, category, subcategory) ==
    IF HasEntry(customQuestions, category, subcategory)
    THEN customQuestions[category][subcategory]
    ELSE << >>

\* get_questions for a catalog qdata: the custom questions of a custom
\* pair, the list of the catalog, or the generic questions on KeyError
get_questions_from(qdata, customQuestions, category, subcategory, is_custom) ==
    IF is_custom
    THEN IF get_custom_questions(customQuestions, category, subcategory) # << >>
         THEN get_custom_questions(customQuestions, category, subcategory)
         ELSE get_generic_questions
    ELSE IF HasEntry(qdata, category, subcategory)
         THEN qdata[category][subcategory]
         ELSE get_generic_questions

\* a lookup that falls back to the generic questions only when the whole
\* category is missing, and serves a missing subcategory from the category
get_questions_of_category(customQuestions, category, subcategory, is_custom) ==
    IF is_custom
    THEN IF get_custom_questions(customQuestions, category, subcategory) # << >>
         THEN get_custom_questions(customQuestions, category, subcategory)
         ELSE get_generic_questions
    ELSE IF category \in DOMAIN questions_data
         THEN LET sc == IF subcategory \in DOMAIN questions_data[category]
                        THEN subcategory
                        ELSE CHOOSE x \in DOMAIN questions_data[category] : TRUE
              IN questions_data[category][sc]
         ELSE get_generic_questions

\* get_questions with the catalog held in self.questions_data
get_questions(customQuestions, category, subcategory, is_custom) ==
    get_questions_from(questions_data, customQuestions, category, subcategory,
                       is_custom)

\* get_fallback_templates: category -> subcategory -> template
get_fallback_templates ==
    [c \in {"code", "image"} |->
        IF c = "code"
        THEN [sc \in {"web_app"} |->
                "Create a {subcategory} with the following specifications:\n\n{answers_summary}\n\nPlease ensure the code is:\n- Well-documented and clean\n- Following best practices for {category}\n- Scalable and maintainable\n- Secure and optimized\n\nGenerated on: {timestamp}"]
        ELSE [sc \in {"fantasy"} |->
                "Generate a {subcategory} image with these characteristics:\n\n{answers_summary}\n\nStyle: Professional digital art\nQuality: High resolution, detailed\nFormat: Suitable for digital use\n\nGenerated on: {timestamp}"]]

\* load_templates: the catalog used when data/templates.json cannot be read
templates_data == get_fallback_templates

get_generic_template ==
    "Create {category} content of type {subcategory} with the following specifications:\n\n{answers_summary}\n\nPlease ensure the output is:\n- High quality and professional\n- Tailored to the specified requirements\n- Creative and engaging\n- Technically sound\n\nGenerated on: {timestamp}"

\* settings_manager.get_custom_template: "" when nothing was uploaded
get_custom_template(customTemplates, category, subcategory) ==
    IF HasEntry(customTemplates, category, subcategory)
    THEN customTemplates[category][subcategory]
    ELSE ""

\* load_questions: the content of data/questions.json, or the fallback
\* questions when the file is missing or is not valid JSON
load_questions(file) ==
    IF file.readable THEN file.data ELSE get_fallback_questions

\* load_templates: the content of data/templates.json, or the fallback
\* templates when the file is missing or is not valid JSON
load_templates(file) ==
    IF file.readable THEN file.data ELSE get_fallback_templates

NotSpecified == "Not specified"

\* the bullet character U+2022 of the answers summary, written in ASCII
Bullet == "*"

\* user_answers.get(i, "Not specified") for i in range(len(questions));
\* position i + 1 of the list holds the answer to question index i
answers_list(questions, user_answers) ==
    [i \in 1..Len(questions) |->
        IF (i - 1) \in DOMAIN user_answers
        THEN user_answers[i - 1] ELSE NotSpecified]

\* a test that takes "Not specified" for an answer
IsAnswered_placeholder(answer) == answer # "" /\ Strip(answer) # ""

\* the test of create_answers_summary and integrate_specific_answers
IsAnswered(answer) ==
    answer # "" /\ Strip(answer) # "" /\ answer # NotSpecified

RECURSIVE summary_from(_, _, _)
summary_from(questions, answers, i) ==
    IF i > Len(questions) \/ i > Len(answers) THEN ""
    ELSE (IF IsAnswered(answers[i])
          THEN "\n" \o Bullet \o " " \o questions[i] \o ": " \o answers[i]
          ELSE "")
            \o summary_from(questions, answers, i + 1)

create_answers_summary(questions, answers) ==
    Strip(summary_from(questions, answers, 1))

\* the keyword groups of integrate_specific_answers, in the order tested
KeywordGroups ==
    << [label |-> "Style requirements",
        words |-> {"style", "aesthetic", "look", "appearance"}],
       [label |-> "Target audience",
        words |-> {"audience", "target", "user", "viewer"}],
       [label |-> "Purpose",
        words |-> {"purpose", "goal", "objective", "aim"}],
       [label |-> "Features",
        words |-> {"feature", "functionality", "function"}],
       [label |-> "Technology",
        words |-> {"technology", "tech", "platform", "framework"}],
       [label |-> "Color scheme",
        words |-> {"color", "colour", "palette"}],
       [label |-> "Size specifications",
        words |-> {"size", "length", "duration", "dimension"}],
       [label |-> "Tone/Mood",
        words |-> {"tone", "mood", "feeling", "emotion"}] >>

\* any(word in question_lower for word in group)
GroupMatches(g, question) ==
    \E word \in KeywordGroups[g].words : Contains(Lower(question), word)

\* integrations under the label of the last group that matches
integrations_of_last(question, answer) ==
    IF ~IsAnswered(answer) THEN << >>
    ELSE IF \E g \in 1..Len(KeywordGroups) : GroupMatches(g, question)
         THEN LET g == CHOOSE h \in 1..Len(KeywordGroups) :
                         /\ GroupMatches(h, question)
                         /\ \A k \in (h + 1)..Len(KeywordGroups) :
                               ~GroupMatches(k, question)
              IN << KeywordGroups[g].label \o ": " \o answer >>
         ELSE << >>

RECURSIVE integrations_of_groups(_, _, _)
\* the lines of the groups g, g + 1, ... that match the question
integrations_of_groups(question, answer, g) ==
    IF g > Len(KeywordGroups) THEN << >>
    ELSE (IF GroupMatches(g, question)
          THEN << KeywordGroups[g].label \o ": " \o answer >> ELSE << >>)
            \o integrations_of_groups(question, answer, g + 1)

\* integrations under the label of every group that matches
integrations_of_every(question, answer) ==
    IF ~IsAnswered(answer) THEN << >>
    ELSE integrations_of_groups(question, answer, 1)

\* the integrations a question adds: the if/elif chain takes the first group
\* that matches
integrations_of(question, answer) ==
    IF ~IsAnswered(answer) THEN << >>
    ELSE IF \E g \in 1..Len(KeywordGroups) : GroupMatches(g, question)
         THEN LET g == CHOOSE h \in 1..Len(KeywordGroups) :
                         /\ GroupMatches(h, question)
                         /\ \A k \in 1..(h - 1) : ~GroupMatches(k, question)
              IN << KeywordGroups[g].label \o ": " \o answer >>
         ELSE << >>

RECURSIVE integrations_from(_, _, _)
integrations_from(questions, answers, i) ==
    IF i > Len(questions) \/ i > Len(answers) THEN << >>
    ELSE integrations_of(questions[i], answers[i])
            \o integrations_from(questions, answers, i + 1)

RECURSIVE JoinItems(_)
\* "\n".join([f"- {item}" for item in integrations])
JoinItems(items) ==
    IF items = << >> THEN ""
    ELSE "- " \o items[1]
            \o (IF Len(items) > 1 THEN "\n" \o JoinItems(Tail(items)) ELSE "")

\* an integration step that writes its header whatever it found
integrate_specific_answers_always(prompt, questions, answers) ==
    prompt \o "\n\nSpecific Requirements:\n"
        \o JoinItems(integrations_from(questions, answers, 1))

integrate_specific_answers(prompt, questions, answers) ==
    LET integrations == integrations_from(questions, answers, 1) IN
    IF integrations # << >>
    THEN prompt \o "\n\nSpecific Requirements:\n" \o JoinItems(integrations)
    ELSE prompt

\* a lookup without the KeyError handler: the error takes the place of the
\* template
template_from_raising(tdata, customTemplates, category, subcategory, is_custom) ==
    IF is_custom
    THEN IF get_custom_template(customTemplates, category, subcategory) # ""
         THEN get_custom_template(customTemplates, category, subcategory)
         ELSE get_generic_template
    ELSE IF HasEntry(tdata, category, subcategory)
         THEN tdata[category][subcategory]
         ELSE "KeyError: " \o subcategory

\* the template chosen by generate_prompt from the catalog tdata
template_from(tdata, customTemplates, category, subcategory, is_custom) ==
    IF is_custom
    THEN IF get_custom_template(customTemplates, category, subcategory) # ""
         THEN get_custom_template(customTemplates, category, subcategory)
         ELSE get_generic_template
    ELSE IF HasEntry(tdata, category, subcategory)
         THEN tdata[category][subcategory]
         ELSE get_generic_template

\* the template chosen with the catalog held in self.templates_data
template_for(customTemplates, category, subcategory, is_custom) ==
    template_from(templates_data, customTemplates, category, subcategory,
                  is_custom)

\* the four replacements, applied to the template in dict order
substitute(template, category, subcategory, timestamp, summary) ==
    Replace(Replace(Replace(Replace(template,
        "{category}", Title(category)),
        "{subcategory}", Title(subcategory)),
        "{timestamp}", timestamp),
        "{answers_summary}", summary)

\* generate_prompt for the catalogs qd (questions) and td (templates)
generate_prompt_from(qd, td, cq, ct, category, subcategory, answers, is_custom, now) ==
    LET template == template_from(td, ct, category, subcategory, is_custom)
        questions == get_questions_from(qd, cq, category, subcategory,
                                        is_custom)
        answers_of == answers_list(questions, answers)
    IN integrate_specific_answers(
          substitute(template, category, subcategory, now,
                     create_answers_summary(questions, answers_of)),
          questions, answers_of)

\* generate_prompt with the catalogs held by the generator
generate_prompt(cq, ct, category, subcategory, answers, is_custom, now) ==
    generate_prompt_from(questions_data, templates_data, cq, ct, category,
                         subcategory, answers, is_custom, now)

(***************************************************************************)
(* Numbers typed at a prompt                                               *)
(***************************************************************************)

DigitChars == "0123456789"

\* str(n) for 0 <= n
RECURSIVE IntToStr(_)
IntToStr(n) ==
    IF n < 10 THEN CharAt(DigitChars, n + 1)
    ELSE IntToStr(n \div 10) \o CharAt(DigitChars, (n % 10) + 1)

\* str.isdigit()
IsDigit(s) ==
    s # "" /\ \A i \in 1..Len(s) : IndexIn(DigitChars, CharAt(s, i)) > 0

\* int(s) for a string of digits
RECURSIVE StrToInt(_)
StrToInt(s) ==
    IF s = "" THEN 0
    ELSE 10 * StrToInt(SubSeq(s, 1, Len(s) - 1))
            + (IndexIn(DigitChars, CharAt(s, Len(s))) - 1)

\* [str(i) for i in range(1, n + 1)]
NumberChoices(n) == {IntToStr(i) : i \in 1..n}

\* the elements of a list, as a set
Range(seq) == {seq[i] : i \in 1..Len(seq)}

\* list[k] for a 0-based k; a negative k counts from the end, and an index
\* outside the list raises IndexError
HasIndex(list, k) == -Len(list) <= k /\ k < Len(list)

ListItem(list, k) == IF k >= 0 THEN list[k + 1] ELSE list[Len(list) + k + 1]

\* Prompt.ask(...).lower() for an accepted line
PromptChoice(line, default) == Lower(PromptAsk(line, default))

(***************************************************************************)
(* ErrorClassifier (utils/error_handler.py)                                *)
(***************************************************************************)

\* ErrorClassifier.ERROR_CODES: the numbered errors and their descriptions
ERROR_CODES ==
    (101 :> "Missing required file")
    @@ (102 :> "Corrupted JSON data file")
    @@ (103 :> "Permission denied on file access")
    @@ (104 :> "Directory structure error")
    @@ (105 :> "Config file malformed")
    @@ (201 :> "Missing Python module")
    @@ (202 :> "Outdated package version")
    @@ (203 :> "Clipboard system unavailable")
    @@ (204 :> "Database connection failed")
    @@ (205 :> "Rich terminal not supported")
    @@ (301 :> "Database schema corruption")
    @@ (302 :> "SQLite file locked")
    @@ (303 :> "PostgreSQL connection timeout")
    @@ (304 :> "Migration failed")
    @@ (305 :> "Data integrity violation")
    @@ (401 :> "Memory allocation error")
    @@ (402 :> "Infinite loop detected")
    @@ (403 :> "Stack overflow")
    @@ (404 :> "Resource not found")
    @@ (405 :> "Invalid user input handling")
    @@ (501 :> "Terminal size too small")
    @@ (502 :> "Color rendering failure")
    @@ (503 :> "Animation system crash")
    @@ (504 :> "Progress tracking error")
    @@ (505 :> "History system malfunction")
    @@ (601 :> "Custom category validation failed")
    @@ (602 :> "Template parsing error")
    @@ (603 :> "Question file format invalid")
    @@ (604 :> "Custom data corruption")
    @@ (605 :> "Settings manager failure")

\* some word of the set is in the message
ContainsAny(message, words) == \E word \in words : Contains(message, word)

\* ErrorClassifier.classify_error: the first test of the chain that the
\* lower-cased message passes gives the code; error_type is not looked at
classify_error(error_type, error_message) ==
    LET m == Lower(error_message) IN
    IF ContainsAny(m, {"no such file", "filenotfound"}) THEN 101
    ELSE IF Contains(m, "json") /\ ContainsAny(m, {"decode", "parse"}) THEN 102
    ELSE IF Contains(m, "permission denied") THEN 103
    ELSE IF Contains(m, "directory") /\ Contains(m, "not found") THEN 104
    ELSE IF ContainsAny(m, {"modulenotfound", "no module named"}) THEN 201
    ELSE IF Contains(m, "version")
            /\ ContainsAny(m, {"incompatible", "outdated"}) THEN 202
    ELSE IF Contains(m, "clipboard") THEN 203
    ELSE IF Contains(m, "database") /\ Contains(m, "connect") THEN 204
    ELSE IF Contains(m, "sqlite") /\ ContainsAny(m, {"lock", "busy"}) THEN 302
    ELSE IF Contains(m, "postgresql") /\ Contains(m, "timeout") THEN 303
    ELSE IF Contains(m, "memory") THEN 401
    ELSE IF ContainsAny(m, {"recursion", "maximum recursion"}) THEN 403
    ELSE IF Contains(m, "terminal") /\ Contains(m, "size") THEN 501
    ELSE IF ContainsAny(m, {"color", "ansi"}) THEN 502
    ELSE IF Contains(m, "animation") THEN 503
    ELSE IF Contains(m, "progress") THEN 504
    ELSE IF Contains(m, "history") THEN 505
    ELSE IF Contains(m, "custom") /\ Contains(m, "category") THEN 601
    ELSE IF Contains(m, "template") THEN 602
    ELSE IF Contains(m, "question") /\ Contains(m, "format") THEN 603
    ELSE IF Contains(m, "settings") THEN 605
    ELSE 999

\* ErrorClassifier.get_error_description
get_error_description(error_code) ==
    IF error_code \in DOMAIN ERROR_CODES
    THEN ERROR_CODES[error_code] ELSE "Unclassified error"

(***************************************************************************)
(* PromptGPTOS (main.py): the session state                                *)
(***************************************************************************)

VARIABLES
    current_page,          \* self.current_page
    user_answers,          \* self.user_answers: question index -> answer
    current_category,      \* self.current_category
    current_subcategory,   \* self.current_subcategory
    question_index,        \* self.question_index
    is_custom_category,    \* self.is_custom_category
    running,               \* FALSE once sys.exit was called
    exit_code,             \* the status passed to sys.exit, once it was called
    custom_categories,     \* custom_data/custom_categories.json
    custom_questions,      \* custom_data/custom_questions.json
    custom_templates,      \* custom_data/custom_templates.json
    pg_call,               \* the arguments of a call of the prompt generator
    pg_questions,          \* what get_questions returned for pg_call
    pg_prompt,             \* what generate_prompt returned for pg_call
    ec_call,               \* the arguments of a call of classify_error
    ec_codes,              \* the codes classify_error returned for ec_call
    history,               \* generated_prompts/prompt_history.json
    history_clock,         \* the entries created so far: the clock of created_at
    gbt_current_screen,    \* PromptGBTOS: self.current_screen
    gbt_current_category,  \* PromptGBTOS: self.current_category
    gbt_current_subcategory,      \* PromptGBTOS: self.current_subcategory
    gbt_current_question_index,   \* PromptGBTOS: self.current_question_index
    gbt_answers,           \* PromptGBTOS: self.answers
    gbt_questions,         \* PromptGBTOS: self.questions
    gbt_position           \* PromptGBTOS: the loop that reads the next line

session == <<current_page, user_answers, current_category,
             current_subcategory, question_index, is_custom_category>>

custom_data == <<custom_categories, custom_questions, custom_templates>>

generator == <<pg_call, pg_questions, pg_prompt>>

classifier == <<ec_call, ec_codes>>

process == <<running, exit_code>>

\* the stored prompt history, most recent entry first, and the clock that
\* stamps the entries
storage == <<history, history_clock>>

\* the fields of the standalone application (promptgbt_os.py)
standalone == <<gbt_current_screen, gbt_current_category,
                gbt_current_subcategory, gbt_current_question_index,
                gbt_answers, gbt_questions, gbt_position>>

\* PromptGBTOS.__init__, with the control in the loop of run
InitStandalone ==
    /\ gbt_current_screen = "main_menu"
    /\ gbt_current_category = ""
    /\ gbt_current_subcategory = ""
    /\ gbt_current_question_index = 0
    /\ gbt_answers = << >>
    /\ gbt_questions = << >>
    /\ gbt_position = "run"

vars == <<session, process, storage, standalone, custom_data, generator,
          classifier>>

\* the custom data kept in custom_data/ from earlier sessions: one custom
\* category with two subcategories, questions and a template for the first
StoredCategories ==
    << [key |-> "my_cat", subcategories |-> <<"sub_a", "sub_b">>] >>

StoredQuestions ==
    [c \in {"my_cat"} |->
        [sc \in {"sub_a"} |->
            << "What mood and style do you want?",
               "Which colours should it use?" >>]]

StoredTemplates ==
    [c \in {"my_cat"} |->
        [sc \in {"sub_a"} |->
            "Design for {answer_1} in {answer_2}.\n{answers_summary}"]]

\* the arguments recorded while no call of the generator is examined
NoCall ==
    [category |-> None, subcategory |-> None, user_answers |-> << >>,
     is_custom |-> FALSE, timestamp |-> None]

\* the arguments recorded while no call of classify_error is examined
NoError == [error_type |-> None, error_message |-> None]

\* PromptGPTOS.__init__; SettingsManager.__init__ keeps existing custom files
Init ==
    /\ current_page = "main_menu"
    /\ user_answers = << >>
    /\ current_category = None
    /\ current_subcategory = None
    /\ question_index = 0
    /\ is_custom_category = FALSE
    /\ running = TRUE
    /\ exit_code = 0
    /\ custom_categories = StoredCategories
    /\ custom_questions = StoredQuestions
    /\ custom_templates = StoredTemplates
    /\ pg_call = NoCall
    /\ pg_questions = << >>
    /\ pg_prompt = None
    /\ ec_call = NoError
    /\ ec_codes = << >>
    /\ history = << >>
    /\ history_clock = 0
    /\ InitStandalone

\* the questions of the questionnaire in progress
Questions ==
    get_questions(custom_questions, current_category, current_subcategory,
                  is_custom_category)

\* sys.exit(code): SystemExit passes every "except Exception" and ends the
\* process with the status code
sys_exit(code) ==
    /\ running' = FALSE
    /\ exit_code' = code
    /\ UNCHANGED <<session, storage, standalone, custom_data, generator, classifier>>

\* an error handler that starts the session over
handle_exception_resetting ==
    /\ current_page' = "main_menu"
    /\ user_answers' = << >>
    /\ question_index' = 0
    /\ current_category' = None
    /\ current_subcategory' = None
    /\ UNCHANGED <<is_custom_category, process, storage, standalone, custom_data, generator,
                   classifier>>

\* run's "except Exception": the error is printed and the page becomes the
\* main menu; the loop goes on
handle_exception ==
    /\ current_page' = "main_menu"
    /\ UNCHANGED <<user_answers, current_category, current_subcategory,
                   question_index, is_custom_category, process, storage, standalone, custom_data,
                   generator, classifier>>

\* whether the console calls that print the session summary and the goodbye
\* panel return; a console call that fails raises (an OSError on a closed
\* output, a UnicodeEncodeError on an output that cannot encode the panel)
RenderOutcomes == BOOLEAN

\* quit_app called by a page handler, inside run's try: the summary is
\* printed and sys.exit(0) is called; an exception of the printing leaves
\* quit_app before sys.exit and is caught by run's "except Exception"
quit_app ==
    \E rendered \in RenderOutcomes :
        IF rendered THEN sys_exit(0) ELSE handle_exception

\* quit_app called by run's "except KeyboardInterrupt" clause: an exception
\* of the printing is raised inside the except clause, leaves run and is
\* caught by main's "except Exception", which calls sys.exit(1)
quit_app_on_interrupt ==
    \E rendered \in RenderOutcomes :
        IF rendered THEN sys_exit(0) ELSE sys_exit(1)

\* what no page handler changes, quit_app and the settings page aside
others == <<process, storage, standalone, custom_data, generator,
           classifier>>

\* a handler that only changes the page
GoTo(page) ==
    /\ current_page' = page
    /\ UNCHANGED <<user_answers, current_category, current_subcategory,
                   question_index, is_custom_category, others>>

\* a questionnaire that starts with the answers and index left over
start_questionnaire_keeping(subcategory, is_custom) ==
    /\ current_subcategory' = subcategory
    /\ is_custom_category' = is_custom
    /\ current_page' = "questionnaire"
    /\ UNCHANGED <<user_answers, question_index, current_category, others>>

\* a subcategory was chosen: the questionnaire starts from its first question
start_questionnaire(subcategory, is_custom) ==
    /\ current_subcategory' = subcategory
    /\ user_answers' = << >>
    /\ question_index' = 0
    /\ is_custom_category' = is_custom
    /\ current_page' = "questionnaire"
    /\ UNCHANGED <<current_category, others>>

(***************************************************************************)
(* Main menu and the pages that only lead back to it                       *)
(***************************************************************************)

MainMenuChoices ==
    {"start", "history", "readme", "guide", "settings", "stats", "debug",
     "analyze", "test", "quit", "s", "h", "r", "g", "set", "st", "d", "a",
     "t", "q"}

\* lines typed at the main menu
MainMenuLines == MainMenuChoices \cup {"", " start ", "START", "menu"}

\* show_main_menu once the line was read
main_menu_input(line) ==
    IF ~PromptAccepts(line, MainMenuChoices, "start")
    THEN UNCHANGED vars
    ELSE LET choice == PromptChoice(line, "start") IN
         CASE choice \in {"start", "s"} -> GoTo("category_selection")
           [] choice \in {"history", "h"} -> GoTo("history")
           [] choice \in {"readme", "r"} -> GoTo("readme")
           [] choice \in {"guide", "g"} -> GoTo("template_guide")
           [] choice \in {"settings", "set"} -> GoTo("settings")
           [] choice \in {"stats", "st"} -> GoTo("stats")
           [] choice \in {"debug", "d", "analyze", "a", "test", "t"} ->
                GoTo("main_menu")
           [] choice \in {"quit", "q"} -> quit_app
           [] OTHER -> UNCHANGED vars

show_main_menu ==
    /\ running
    /\ current_page = "main_menu"
    /\ \E line \in MainMenuLines : main_menu_input(line)

ReadmeLines == {"", "home", "quit", "QUIT", "anything"}

\* show_readme once the line was read
readme_input(line) ==
    IF PromptChoice(line, "home") = "quit"
    THEN quit_app
    ELSE GoTo("main_menu")

show_readme ==
    /\ running
    /\ current_page = "readme"
    /\ \E line \in ReadmeLines : readme_input(line)

show_template_guide ==
    /\ running
    /\ current_page = "template_guide"
    /\ GoTo("main_menu")

show_stats ==
    /\ running
    /\ current_page = "stats"
    /\ GoTo("main_menu")

\* display_history_page returns "main_menu" or None, depending on the stored
\* history and on the line typed; on None the page stays the history page
show_history ==
    /\ running
    /\ current_page = "history"
    /\ \E result \in {"main_menu", None} :
        IF result = "main_menu" THEN GoTo("main_menu") ELSE UNCHANGED vars


(***************************************************************************)
(* Category and subcategory selection                                      *)
(***************************************************************************)

CategoryChoices ==
    {"1", "2", "3", "4", "5", "6", "code", "image", "music", "text", "video",
     "custom", "home", "quit"}

category_map ==
    [c \in {"1", "code", "2", "image", "3", "music", "4", "text", "5",
            "video"} |->
        CASE c \in {"1", "code"} -> "code"
          [] c \in {"2", "image"} -> "image"
          [] c \in {"3", "music"} -> "music"
          [] c \in {"4", "text"} -> "text"
          [] c \in {"5", "video"} -> "video"]

\* lines typed at the category prompt
CategoryLines ==
    {"1", "code", "2", "image", "6", "custom", "home", "quit", "Code", "7",
     ""}

\* a category page that gives up on a line it does not know
category_input_falling_back(line) ==
    IF ~PromptAccepts(line, CategoryChoices, None)
    THEN GoTo("main_menu")
    ELSE LET choice == PromptChoice(line, None) IN
         CASE choice = "quit" -> quit_app
           [] choice = "home" -> GoTo("main_menu")
           [] choice \in {"6", "custom"} ->
                GoTo("custom_category_selection")
           [] OTHER ->
                /\ current_category' = category_map[choice]
                /\ current_page' = "subcategory_selection"
                /\ UNCHANGED <<user_answers, current_subcategory,
                               question_index, is_custom_category, others>>

\* show_category_selection once the line was read
category_input(line) ==
    IF ~PromptAccepts(line, CategoryChoices, None)
    THEN UNCHANGED vars
    ELSE LET choice == PromptChoice(line, None) IN
         CASE choice = "quit" -> quit_app
           [] choice = "home" -> GoTo("main_menu")
           [] choice \in {"6", "custom"} ->
                GoTo("custom_category_selection")
           [] OTHER ->
                LET category == IF choice \in DOMAIN category_map
                                THEN category_map[choice] ELSE None IN
                /\ current_category' = category
                /\ current_page' = IF category # None
                                   THEN "subcategory_selection"
                                   ELSE current_page
                /\ UNCHANGED <<user_answers, current_subcategory,
                               question_index, is_custom_category, others>>

show_category_selection ==
    /\ running
    /\ current_page = "category_selection"
    /\ \E line \in CategoryLines : category_input(line)

\* next(sub for sub in subcategories if sub.lower() == choice)
FirstWithName(subcategories, choice) ==
    subcategories[CHOOSE i \in 1..Len(subcategories) :
                    /\ Lower(subcategories[i]) = choice
                    /\ \A j \in 1..(i - 1) : Lower(subcategories[j]) # choice]

\* lines typed at the subcategory prompt
SubcategoryLines ==
    {"1", "2", "web_app", "script", "fantasy", "social_media", "back",
     "home", "quit", "0", "9", "Web_App", "poster", ""}

\* [sub.lower() for sub in subcategories], for each built-in category
lower_subcategories ==
    [category \in DOMAIN CATEGORIES |->
        {Lower(sub) : sub \in Range(CATEGORIES[category])}]

\* the choices accepted at the subcategory prompt of a built-in category
subcategory_choices(category) ==
    NumberChoices(Len(CATEGORIES[category]))
        \cup lower_subcategories[category]
        \cup {"back", "home", "quit"}

\* show_subcategory_selection once the line was read
subcategory_input(line) ==
    LET subcategories == CATEGORIES[current_category] IN
    IF ~PromptAccepts(line, subcategory_choices(current_category), None)
    THEN UNCHANGED vars
    ELSE LET choice == PromptChoice(line, None) IN
         CASE choice = "quit" -> quit_app
           [] choice = "home" -> GoTo("main_menu")
           [] choice = "back" -> GoTo("category_selection")
           [] OTHER ->
                IF IF IsDigit(choice)
                   THEN HasIndex(subcategories, StrToInt(choice) - 1)
                   ELSE choice \in lower_subcategories[current_category]
                THEN start_questionnaire(
                       IF IsDigit(choice)
                       THEN ListItem(subcategories, StrToInt(choice) - 1)
                       ELSE FirstWithName(subcategories, choice),
                       FALSE)
                ELSE \* IndexError or StopIteration: "Invalid choice"
                     UNCHANGED vars

show_subcategory_selection ==
    /\ running
    /\ current_page = "subcategory_selection"
    /\ IF current_category \notin DOMAIN CATEGORIES
       THEN \* CATEGORIES[self.current_category] raises KeyError, which
            \* run() catches: the page becomes the main menu
            handle_exception
       ELSE \E line \in SubcategoryLines : subcategory_input(line)

(***************************************************************************)
(* Questionnaire and result                                                *)
(***************************************************************************)

\* the most answers a user types in one questionnaire; the other questions
\* are passed with a command or an empty line
MaxAnswers == 2

\* lines typed at the question prompt
QuestionnaireLines ==
    {"", "   ", "Automate log rotation", "  Automate log rotation ", "<>",
     "'back'", "\"restart\"", "back", "b", "BACK", "restart", "r", "next",
     "n", "skip", "sk", "home", "h", "quit", "q", "help", "?"}

\* the dict without key k
DictRemove(d, k) == [i \in DOMAIN d \ {k} |-> d[i]]

\* the dict with d[k] = v
DictPut(d, k, v) == [i \in DOMAIN d \cup {k} |-> IF i = k THEN v ELSE d[i]]

\* "restart" that asks the first question again over the answers given
questionnaire_restart_keeping ==
    /\ question_index' = 0
    /\ UNCHANGED <<current_page, user_answers, current_category,
                   current_subcategory, is_custom_category, others>>

\* "restart": the answers are dropped and the first question is asked again
questionnaire_restart ==
    /\ user_answers' = << >>
    /\ question_index' = 0
    /\ UNCHANGED <<current_page, current_category, current_subcategory,
                   is_custom_category, others>>

\* "back" that steps one question back but keeps the answer stored there
questionnaire_back_keeping ==
    IF question_index > 0
    THEN /\ question_index' = question_index - 1
         /\ UNCHANGED <<current_page, user_answers, current_category,
                        current_subcategory, is_custom_category, others>>
    ELSE GoTo("subcategory_selection")

\* "back": one question back, dropping its answer, or off the questionnaire
questionnaire_back ==
    IF question_index > 0
    THEN /\ question_index' = question_index - 1
         /\ user_answers' = DictRemove(user_answers, question_index - 1)
         /\ UNCHANGED <<current_page, current_category, current_subcategory,
                        is_custom_category, others>>
    ELSE GoTo("subcategory_selection")

\* "next" and "skip" that record the question as skipped
questionnaire_next_recording ==
    /\ user_answers' = DictPut(user_answers, question_index, "skipped")
    /\ question_index' = question_index + 1
    /\ UNCHANGED <<current_page, current_category, current_subcategory,
                   is_custom_category, others>>

\* "next" and "skip": on to the next question, nothing is stored
questionnaire_next ==
    /\ question_index' = question_index + 1
    /\ UNCHANGED <<current_page, user_answers, current_category,
                   current_subcategory, is_custom_category, others>>

\* any other value: it is stored unless blank, then on to the next question
questionnaire_answer(answer) ==
    /\ user_answers' = IF Strip(answer) # ""
                       THEN DictPut(user_answers, question_index, answer)
                       ELSE user_answers
    /\ question_index' = question_index + 1
    /\ UNCHANGED <<current_page, current_category, current_subcategory,
                   is_custom_category, others>>

\* the line typed adds an answer to the Answer Set
StoresAnswer(line) ==
    /\ ~get_user_choice_asks_again(line)
    /\ get_user_choice(line)
          \notin {"quit", "home", "restart", "back", "next", "skip"}
    /\ Strip(get_user_choice(line)) # ""

\* the test that lets one question too many be asked
questionnaire_complete_late == question_index > Len(Questions)

\* the test that ends the questionnaire
questionnaire_complete == question_index >= Len(Questions)

\* show_questionnaire once the line was read at the question prompt
questionnaire_input(line) ==
    IF get_user_choice_asks_again(line)
    THEN UNCHANGED vars
    ELSE LET answer == get_user_choice(line) IN
         CASE answer = "quit" -> quit_app
           [] answer = "home" -> GoTo("main_menu")
           [] answer = "restart" -> questionnaire_restart
           [] answer = "back" -> questionnaire_back
           [] answer \in {"next", "skip"} -> questionnaire_next
           [] OTHER -> questionnaire_answer(answer)

show_questionnaire ==
    /\ running
    /\ current_page = "questionnaire"
    /\ IF questionnaire_complete
       THEN GoTo("prompt_result")
       ELSE \E line \in QuestionnaireLines :
              /\ StoresAnswer(line)
                    => Cardinality(DOMAIN user_answers) < MaxAnswers
              /\ questionnaire_input(line)

ResultChoices == {"copy", "save", "restart", "home", "quit"}

NextChoices == {"save", "restart", "home", "quit"}

\* lines typed at the prompts of the result page
ResultLines ==
    {"", "copy", "save", "restart", "home", "quit", "r", "RESTART", "again"}

\* "restart" on the result page that keeps the answers given
result_restart_keeping ==
    /\ question_index' = 0
    /\ current_page' = "questionnaire"
    /\ UNCHANGED <<user_answers, current_category, current_subcategory,
                   is_custom_category, others>>

\* "restart" on the result page: the same questionnaire starts over
result_restart ==
    /\ user_answers' = << >>
    /\ question_index' = 0
    /\ current_page' = "questionnaire"
    /\ UNCHANGED <<current_category, current_subcategory,
                   is_custom_category, others>>

\* the branches shared by the first and the second prompt of the result page
ResultCommand(choice) ==
    CASE choice = "save" -> GoTo("main_menu")
      [] choice = "restart" -> result_restart
      [] choice = "home" -> GoTo("main_menu")
      [] choice = "quit" -> quit_app
      [] OTHER -> UNCHANGED vars

\* show_prompt_result once the lines were read: next_line is read only
\* after "copy"
result_input(line, next_line) ==
    IF ~PromptAccepts(line, ResultChoices, "copy")
    THEN UNCHANGED vars
    ELSE IF PromptChoice(line, "copy") = "copy"
         THEN /\ PromptAccepts(next_line, NextChoices, "home")
              /\ ResultCommand(PromptChoice(next_line, "home"))
         ELSE ResultCommand(PromptChoice(line, "copy"))

show_prompt_result ==
    /\ running
    /\ current_page = "prompt_result"
    /\ \E line \in ResultLines, next_line \in ResultLines :
         result_input(line, next_line)

(***************************************************************************)
(* Custom categories: selection pages (main.py)                            *)
(***************************************************************************)

\* list(custom_categories.keys())
CustomKeys == [i \in 1..Len(custom_categories) |-> custom_categories[i].key]

\* custom_categories[key]['subcategories'], as the list of its keys
CustomSubcategories(key) ==
    custom_categories[CHOOSE i \in 1..Len(custom_categories) :
                        custom_categories[i].key = key].subcategories

\* lines typed at the prompts of the two custom selection pages
CustomLines == {"1", "2", "home", "back", "quit", "3", "my_cat", ""}

\* show_custom_category_selection once the line was read
custom_category_input(line) ==
    LET choices == NumberChoices(Len(custom_categories))
                      \cup {"home", "back", "quit"} IN
    IF ~PromptAccepts(line, choices, None)
    THEN UNCHANGED vars
    ELSE LET choice == PromptChoice(line, None) IN
         CASE choice = "quit" -> quit_app
           [] choice = "home" -> GoTo("main_menu")
           [] choice = "back" -> GoTo("category_selection")
           [] OTHER ->
                IF /\ IsDigit(choice)
                   /\ 0 <= StrToInt(choice) - 1
                   /\ StrToInt(choice) - 1 < Len(CustomKeys)
                THEN /\ current_category' = CustomKeys[StrToInt(choice)]
                     /\ current_page' = "custom_subcategory_selection"
                     /\ UNCHANGED <<user_answers, current_subcategory,
                                    question_index, is_custom_category,
                                    others>>
                ELSE UNCHANGED vars

show_custom_category_selection ==
    /\ running
    /\ current_page = "custom_category_selection"
    /\ IF custom_categories = << >>
       THEN GoTo("category_selection")
       ELSE \E line \in CustomLines : custom_category_input(line)

\* show_custom_subcategory_selection once the line was read
custom_subcategory_input(line) ==
    LET subcat_keys == CustomSubcategories(current_category)
        choices == NumberChoices(Len(subcat_keys))
                      \cup {"home", "back", "quit"}
    IN
    IF ~PromptAccepts(line, choices, None)
    THEN UNCHANGED vars
    ELSE LET choice == PromptChoice(line, None) IN
         CASE choice = "quit" -> quit_app
           [] choice = "home" -> GoTo("main_menu")
           [] choice = "back" -> GoTo("custom_category_selection")
           [] OTHER ->
                IF /\ IsDigit(choice)
                   /\ 0 <= StrToInt(choice) - 1
                   /\ StrToInt(choice) - 1 < Len(subcat_keys)
                THEN start_questionnaire(subcat_keys[StrToInt(choice)], TRUE)
                ELSE UNCHANGED vars

show_custom_subcategory_selection ==
    /\ running
    /\ current_page = "custom_subcategory_selection"
    /\ IF current_category \notin Range(CustomKeys)
       THEN GoTo("custom_category_selection")
       ELSE IF CustomSubcategories(current_category) = << >>
            THEN GoTo("custom_category_selection")
            ELSE \E line \in CustomLines : custom_subcategory_input(line)

(***************************************************************************)
(* Settings page (main.py) and SettingsManager (utils/settings_manager.py) *)
(***************************************************************************)

\* name.lower().replace(" ", "_")
KeyOf(name) == Replace(Lower(name), " ", "_")

RECURSIVE SubcategoryKeys(_)
\* the keys of the subcategories dict built from the names typed, in
\* insertion order
SubcategoryKeys(names) ==
    IF names = << >> THEN << >>
    ELSE LET rest == SubcategoryKeys(SubSeq(names, 1, Len(names) - 1))
             key == KeyOf(names[Len(names)])
         IN IF key \in Range(rest) THEN rest ELSE Append(rest, key)

\* d[k1][k2] = v, creating d[k1] when missing
DictPut2(d, k1, k2, v) ==
    [a \in DOMAIN d \cup {k1} |->
        IF a = k1
        THEN DictPut(IF k1 \in DOMAIN d THEN d[k1] ELSE << >>, k2, v)
        ELSE d[a]]

\* SettingsManager.add_custom_category: categories[category_name] = {...}
add_category(categories, key, subcategories) ==
    LET entry == [key |-> key, subcategories |-> subcategories] IN
    IF \E i \in 1..Len(categories) : categories[i].key = key
    THEN [i \in 1..Len(categories) |->
            IF categories[i].key = key THEN entry ELSE categories[i]]
    ELSE Append(categories, entry)

MaxCustomQuestions == 50

\* the questions kept from the lines of an uploaded file
RECURSIVE QuestionLines(_)
QuestionLines(lines) ==
    IF lines = << >> THEN << >>
    ELSE LET line == Strip(lines[1]) IN
         (IF line # "" /\ ~StartsWith(line, "#") THEN <<line>> ELSE << >>)
            \o QuestionLines(Tail(lines))

upload_questions(lines) ==
    LET questions == QuestionLines(lines) IN
    IF Len(questions) > MaxCustomQuestions
    THEN SubSeq(questions, 1, MaxCustomQuestions)
    ELSE questions

\* category names typed on the settings pages
CategoryNames == {"", "My Cat"}

\* lists of subcategory names typed when a category is added
SubcategoryNameLists == {<< >>, <<"Sub A", "Sub B", "sub a">>}

\* contents of the question files uploaded (<< >>: unreadable or empty)
QuestionFiles ==
    { << >>,
      << "# questions for my category", " What mood and style do you want? ",
         "", "Which colours should it use?" >> }

\* contents of the template files uploaded
TemplateFiles ==
    {"", " Design for {answer_1} in {answer_2}.\n{answers_summary}\n"}

\* category and subcategory typed when a file is uploaded
UploadTargets == {<<"my_cat", "sub_a">>}

\* answers to the confirmation asked before a category is deleted
ConfirmAnswers == {FALSE}

\* a settings operation: it ends on the settings page
SettingsDone(categories, questions, templates) ==
    /\ custom_categories' = categories
    /\ custom_questions' = questions
    /\ custom_templates' = templates
    /\ current_page' = "settings"
    /\ UNCHANGED <<user_answers, current_category, current_subcategory,
                   question_index, is_custom_category, process, storage, standalone, generator,
                   classifier>>

SettingsUnchanged ==
    SettingsDone(custom_categories, custom_questions, custom_templates)

add_custom_category ==
    \E category_name \in CategoryNames, names \in SubcategoryNameLists,
       saved \in BOOLEAN :
        IF category_name = "" \/ SubcategoryKeys(names) = << >> \/ ~saved
        THEN SettingsUnchanged
        ELSE SettingsDone(add_category(custom_categories,
                                       KeyOf(category_name),
                                       SubcategoryKeys(names)),
                          custom_questions, custom_templates)

upload_custom_questions ==
    \E lines \in QuestionFiles, target \in UploadTargets, saved \in BOOLEAN :
        IF upload_questions(lines) = << >> \/ ~saved
        THEN SettingsUnchanged
        ELSE SettingsDone(custom_categories,
                          DictPut2(custom_questions, target[1], target[2],
                                   upload_questions(lines)),
                          custom_templates)

upload_custom_template ==
    \E content \in TemplateFiles, target \in UploadTargets, saved \in BOOLEAN :
        IF Strip(content) = "" \/ ~saved
        THEN SettingsUnchanged
        ELSE SettingsDone(custom_categories, custom_questions,
                          DictPut2(custom_templates, target[1], target[2],
                                   Strip(content)))

\* SettingsManager.delete_custom_category
delete_category(key) ==
    SettingsDone(SelectSeq(custom_categories, LAMBDA e : e.key # key),
                 [c \in DOMAIN custom_questions \ {key} |->
                    custom_questions[c]],
                 [c \in DOMAIN custom_templates \ {key} |->
                    custom_templates[c]])

\* lines typed at the prompts of the manage and delete pages
ManageLines == {"1", "2", "3", "delete", "back", "cancel"}

manage_custom_content ==
    IF custom_categories = << >>
    THEN SettingsUnchanged
    ELSE \E line \in ManageLines, delete_line \in ManageLines,
            confirm \in ConfirmAnswers :
           LET n == Len(custom_categories)
               choice == Lower(Strip(line))
           IN
           /\ line \in NumberChoices(n + 2) \cup {"delete", "back"}
           /\ delete_line \in NumberChoices(n) \cup {"cancel"}
           /\ IF choice = "delete" \/ choice = IntToStr(n + 1)
              THEN IF delete_line # "cancel" /\ confirm
                   THEN delete_category(CustomKeys[StrToInt(delete_line)])
                   ELSE SettingsUnchanged
              ELSE SettingsUnchanged

SettingsChoices ==
    {"1", "2", "3", "4", "add", "upload", "template", "manage", "home",
     "quit"}

SettingsLines == SettingsChoices \cup {"", "5", "Home"}

\* show_settings once the line was read
settings_input(line) ==
    IF ~PromptAccepts(line, SettingsChoices, "1")
    THEN UNCHANGED vars
    ELSE LET choice == PromptChoice(line, "1") IN
         CASE choice = "quit" -> quit_app
           [] choice = "home" -> GoTo("main_menu")
           [] choice \in {"1", "add"} -> add_custom_category
           [] choice \in {"2", "upload"} -> upload_custom_questions
           [] choice \in {"3", "template"} -> upload_custom_template
           [] choice \in {"4", "manage"} -> manage_custom_content
           [] OTHER -> UNCHANGED vars

show_settings ==
    /\ running
    /\ current_page = "settings"
    /\ \E line \in SettingsLines : settings_input(line)

(***************************************************************************)
(* run: what the loop does with an exception or an interrupt of a page     *)
(***************************************************************************)

\* a page handler raises an exception that it does not catch itself (a
\* failing console call, the end of the input at a prompt)
page_raises ==
    /\ running
    /\ handle_exception

\* Ctrl-C while a page is handled. At the question prompt get_user_choice
\* catches the interrupt and returns "quit", and the handler calls quit_app;
\* anywhere else the interrupt reaches run's "except KeyboardInterrupt"
keyboard_interrupt ==
    /\ running
    /\ \/ /\ current_page = "questionnaire"
          /\ question_index < Len(Questions)
          /\ quit_app
       \/ quit_app_on_interrupt

Next ==
    \/ show_main_menu
    \/ show_readme
    \/ show_template_guide
    \/ show_stats
    \/ show_history
    \/ show_category_selection
    \/ show_subcategory_selection
    \/ show_questionnaire
    \/ show_prompt_result
    \/ show_custom_category_selection
    \/ show_custom_subcategory_selection
    \/ show_settings
    \/ page_raises
    \/ keyboard_interrupt

Spec == Init /\ [][Next]_vars
(***************************************************************************)
(* The prompt generator called on its own: get_questions and               *)
(* generate_prompt applied to arguments drawn from bounded sets            *)
(***************************************************************************)

\* calls (category, subcategory, is_custom): pair in both catalogs,
\* subcategory missing,
\* category missing, custom with and without uploaded questions
GenCalls ==
    { <<"code", "web_app", FALSE>>, <<"image", "fantasy", FALSE>>,
      <<"code", "script", FALSE>>, <<"image", "web_app", FALSE>>,
      <<"music", "edm", FALSE>>, <<"my_cat", "sub_a", TRUE>>,
      <<"my_cat", "sub_b", TRUE>>, <<"code", "web_app", TRUE>> }

\* what datetime.now().strftime("%Y-%m-%d %H:%M:%S") returns
Timestamps == {"2025-01-01 12:00:00", "2025-06-30 08:15:42"}

\* answers held by an Answer Set
GenAnswerTexts == {"Make it absurdist", NotSpecified, ""}

\* the highest question index answered
MaxGenIndex == 3

\* the most entries of an Answer Set
MaxGenAnswers == 2

\* the Answer Sets for a questionnaire of n questions
GenAnswerSets(n) ==
    LET indices == {i \in 0..MaxGenIndex : i < n} IN
    UNION {[keys -> GenAnswerTexts] :
             keys \in {k \in SUBSET indices : Cardinality(k) <= MaxGenAnswers}}

InitGen ==
    /\ current_page = "main_menu"
    /\ user_answers = << >>
    /\ current_category = None
    /\ current_subcategory = None
    /\ question_index = 0
    /\ is_custom_category = FALSE
    /\ running = TRUE
    /\ exit_code = 0
    /\ custom_categories = StoredCategories
    /\ custom_questions = StoredQuestions
    /\ custom_templates = StoredTemplates
    /\ \E call \in GenCalls, timestamp \in Timestamps :
         \E answers \in GenAnswerSets(Len(get_questions(StoredQuestions,
                                        call[1], call[2], call[3]))) :
            pg_call = [category |-> call[1], subcategory |-> call[2],
                       user_answers |-> answers, is_custom |-> call[3],
                       timestamp |-> timestamp]
    /\ pg_questions = << >>
    /\ pg_prompt = None
    /\ ec_call = NoError
    /\ ec_codes = << >>
    /\ history = << >>
    /\ history_clock = 0
    /\ InitStandalone

call_get_questions ==
    /\ pg_call # NoCall
    /\ pg_questions = << >>
    /\ pg_questions' = get_questions(custom_questions, pg_call.category,
                                     pg_call.subcategory, pg_call.is_custom)
    /\ UNCHANGED <<session, process, storage, standalone, custom_data, classifier,
                   pg_call, pg_prompt>>

call_generate_prompt ==
    /\ pg_call # NoCall
    /\ pg_prompt = None
    /\ pg_prompt' = generate_prompt(custom_questions, custom_templates,
                                    pg_call.category, pg_call.subcategory,
                                    pg_call.user_answers, pg_call.is_custom,
                                    pg_call.timestamp)
    /\ UNCHANGED <<session, process, storage, standalone, custom_data, classifier,
                   pg_call, pg_questions>>

\* a call whose bookkeeping consumes the caller's answers as it lists them
call_generate_prompt_again_consuming ==
    /\ pg_call # NoCall
    /\ pg_prompt # None
    /\ pg_prompt' = generate_prompt(custom_questions, custom_templates,
                                    pg_call.category, pg_call.subcategory,
                                    pg_call.user_answers, pg_call.is_custom,
                                    pg_call.timestamp)
    /\ pg_call' = [pg_call EXCEPT !.user_answers = << >>]
    /\ UNCHANGED <<session, process, storage, standalone, custom_data, classifier,
                   pg_questions>>

\* generate_prompt called once more with the same arguments, the catalogs
\* and the clock being what they were at the first call
call_generate_prompt_again ==
    /\ pg_call # NoCall
    /\ pg_prompt # None
    /\ pg_prompt' = generate_prompt(custom_questions, custom_templates,
                                    pg_call.category, pg_call.subcategory,
                                    pg_call.user_answers, pg_call.is_custom,
                                    pg_call.timestamp)
    /\ UNCHANGED <<session, process, storage, standalone, custom_data, classifier,
                   pg_call, pg_questions>>

NextGen ==
    \/ call_get_questions
    \/ call_generate_prompt
    \/ call_generate_prompt_again

SpecGen == InitGen /\ [][NextGen]_vars

(***************************************************************************)
(* The prompt generator with catalogs loaded from data/ (SpecCat)          *)
(***************************************************************************)

\* data/questions.json: missing, or a catalog with questions for code/script
QuestionCatalogFiles ==
    { [readable |-> FALSE, data |-> << >>],
      [readable |-> TRUE,
       data |-> [c \in {"code"} |->
                   [sc \in {"script"} |->
                      << "What should the script automate?",
                         "Who is the target user of the script?" >>]]] }

\* data/templates.json: missing, or a catalog with a template for
\* image/poster
TemplateCatalogFiles ==
    { [readable |-> FALSE, data |-> << >>],
      [readable |-> TRUE,
       data |-> [c \in {"image"} |->
                   [sc \in {"poster"} |->
                      "Design a {subcategory} ({category}).\n\n{answers_summary}"]]] }

\* pairs in both, in one or in none of the catalogs loaded
CatalogPairs ==
    { <<"code", "web_app">>, <<"code", "script">>, <<"image", "poster">>,
      <<"image", "fantasy">>, <<"music", "edm">> }

\* PromptGenerator.__init__ with the files found in data/, and the
\* arguments of the call examined
InitCat ==
    /\ current_page = "main_menu"
    /\ user_answers = << >>
    /\ current_category = None
    /\ current_subcategory = None
    /\ question_index = 0
    /\ is_custom_category = FALSE
    /\ running = TRUE
    /\ exit_code = 0
    /\ custom_categories = StoredCategories
    /\ custom_questions = StoredQuestions
    /\ custom_templates = StoredTemplates
    /\ \E pair \in CatalogPairs, qfile \in QuestionCatalogFiles,
          tfile \in TemplateCatalogFiles, timestamp \in Timestamps :
         \E answers \in GenAnswerSets(Len(get_questions_from(
                           load_questions(qfile), StoredQuestions,
                           pair[1], pair[2], FALSE))) :
            pg_call = [category |-> pair[1], subcategory |-> pair[2],
                       user_answers |-> answers, is_custom |-> FALSE,
                       timestamp |-> timestamp, questions_file |-> qfile,
                       templates_file |-> tfile]
    /\ pg_questions = << >>
    /\ pg_prompt = None
    /\ ec_call = NoError
    /\ ec_codes = << >>
    /\ history = << >>
    /\ history_clock = 0
    /\ InitStandalone

load_and_get_questions ==
    /\ pg_questions = << >>
    /\ pg_questions' = get_questions_from(
                          load_questions(pg_call.questions_file),
                          custom_questions, pg_call.category,
                          pg_call.subcategory, pg_call.is_custom)
    /\ UNCHANGED <<session, process, storage, standalone, custom_data, classifier,
                   pg_call, pg_prompt>>

load_and_generate_prompt ==
    /\ pg_prompt = None
    /\ pg_prompt' = generate_prompt_from(
                       load_questions(pg_call.questions_file),
                       load_templates(pg_call.templates_file),
                       custom_questions, custom_templates, pg_call.category,
                       pg_call.subcategory, pg_call.user_answers,
                       pg_call.is_custom, pg_call.timestamp)
    /\ UNCHANGED <<session, process, storage, standalone, custom_data, classifier,
                   pg_call, pg_questions>>

NextCat ==
    \/ load_and_get_questions
    \/ load_and_generate_prompt

SpecCat == InitCat /\ [][NextCat]_vars

(***************************************************************************)
(* The error classifier called on its own (SpecErr)                        *)
(***************************************************************************)

\* names of exception classes passed as error_type
ErrorTypes ==
    {"FileNotFoundError", "JSONDecodeError", "PermissionError", "ValueError"}

\* messages passed as error_message: the one of the self-test of
\* test_runner.py, messages for the tests of the chain, and messages of
\* errors that the chain does not know
ErrorMessages ==
    {"test file not found",
     "[Errno 2] No such file or directory: 'data/questions.json'",
     "FileNotFoundError: questions.json",
     "JSON decode failed at line 3",
     "Could not parse json",
     "[Errno 13] Permission denied: 'custom_data'",
     "directory custom_data not found",
     "No module named 'pyperclip'",
     "ModuleNotFoundError: rich",
     "rich version is outdated",
     "package version incompatible",
     "Clipboard unavailable",
     "could not connect to database",
     "sqlite database is locked",
     "sqlite busy",
     "postgresql connection timeout",
     "Out of memory",
     "maximum recursion depth exceeded",
     "terminal size too small",
     "ANSI escape not supported",
     "color depth unknown",
     "animation crashed",
     "progress bar failed",
     "history file broken",
     "custom category invalid",
     "template has no placeholder",
     "question file format is invalid",
     "settings could not be saved",
     "division by zero",
     "list index out of range",
     "invalid literal for int() with base 10: 'abc'",
     ""}

InitErr ==
    /\ current_page = "main_menu"
    /\ user_answers = << >>
    /\ current_category = None
    /\ current_subcategory = None
    /\ question_index = 0
    /\ is_custom_category = FALSE
    /\ running = TRUE
    /\ exit_code = 0
    /\ custom_categories = StoredCategories
    /\ custom_questions = StoredQuestions
    /\ custom_templates = StoredTemplates
    /\ pg_call = NoCall
    /\ pg_questions = << >>
    /\ pg_prompt = None
    /\ \E error_type \in ErrorTypes, error_message \in ErrorMessages :
         ec_call = [error_type |-> error_type,
                    error_message |-> error_message]
    /\ ec_codes = << >>
    /\ history = << >>
    /\ history_clock = 0
    /\ InitStandalone

\* classifier.classify_error(error_type, error_message)
call_classify_error ==
    /\ ec_call # NoError
    /\ ec_codes = << >>
    /\ ec_codes' = << classify_error(ec_call.error_type,
                                     ec_call.error_message) >>
    /\ UNCHANGED <<session, process, storage, standalone, custom_data, generator, ec_call>>

NextErr == call_classify_error

SpecErr == InitErr /\ [][NextErr]_vars

(***************************************************************************)
(* Properties of the questionnaire and of the pages around it (Spec)       *)
(***************************************************************************)

\* a question is on screen and a line is about to be read
OnQuestion ==
    /\ running
    /\ current_page = "questionnaire"
    /\ question_index < Len(Questions)

\* the line is read by get_user_choice as the navigation command
Typed(line, command) ==
    /\ ~get_user_choice_asks_again(line)
    /\ parse_navigation_command(PromptAsk(line, "")) = command

\* the entries of the Answer Set other than key k are the same after the step
OtherEntriesKept(k) ==
    /\ DOMAIN user_answers' \ {k} = DOMAIN user_answers \ {k}
    /\ \A j \in DOMAIN user_answers \ {k} : user_answers'[j] = user_answers[j]

\* C1: "back" at question index 0 sets the page to subcategory selection and
\* leaves the index at 0, and the index is below 0 in no reachable state;
\* "back" at index i > 0 sets the index to i - 1 and removes the entry at
\* key i - 1 from the Answer Set, leaving every other entry as it was.
C1_Back ==
    /\ [](question_index >= 0)
    /\ [][\A line \in QuestionnaireLines :
            (OnQuestion /\ Typed(line, "back") /\ questionnaire_input(line))
            => IF question_index = 0
               THEN /\ current_page' = "subcategory_selection"
                    /\ question_index' = 0
                    /\ user_answers' = user_answers
               ELSE /\ question_index' = question_index - 1
                    /\ current_page' = "questionnaire"
                    /\ (question_index - 1) \notin DOMAIN user_answers'
                    /\ OtherEntriesKept(question_index - 1)]_vars

\* "back" at the first question of a custom questionnaire: only this step
\* leads to the built-in subcategory page with a custom category selected
C1_Witness ==
    /\ current_page = "subcategory_selection"
    /\ current_category = "my_cat"
    /\ is_custom_category
    /\ question_index = 0

\* the questionnaire starts over
Restarted ==
    /\ question_index = 0
    /\ user_answers = << >>
    /\ current_page = "questionnaire"

\* "restart" is what the result page reads, at its first prompt or, after
\* "copy", at its second
RestartChosen(line, next_line) ==
    /\ PromptAccepts(line, ResultChoices, "copy")
    /\ \/ PromptChoice(line, "copy") = "restart"
       \/ /\ PromptChoice(line, "copy") = "copy"
          /\ PromptAccepts(next_line, NextChoices, "home")
          /\ PromptChoice(next_line, "home") = "restart"

\* C2: "restart" on the questionnaire page at any index, and on the result
\* page as the first choice or as the choice after "copy", always leaves
\* question index 0, an empty Answer Set and the page Questionnaire.
C2_Restart ==
    [][/\ \A line \in QuestionnaireLines :
            (OnQuestion /\ Typed(line, "restart") /\ questionnaire_input(line))
            => Restarted'
       /\ \A line \in ResultLines, next_line \in ResultLines :
            (/\ running
             /\ current_page = "prompt_result"
             /\ RestartChosen(line, next_line)
             /\ result_input(line, next_line))
            => Restarted']_vars

\* a questionnaire with two answers and no question left is on the result
\* page, where "restart" can be chosen
C2_Witness ==
    /\ current_page = "prompt_result"
    /\ Cardinality(DOMAIN user_answers) = 2
    /\ question_index >= Len(Questions)

\* C3: with a question on screen, a line that is not a navigation command
\* is stored at key i when it is non-empty after trimming and leaves the
\* Answer Set unchanged otherwise; either way the index becomes i + 1, the
\* page stays Questionnaire and the entries at other keys are unchanged.
C3_AnswerStored ==
    [][\A line \in QuestionnaireLines :
         (/\ OnQuestion
          /\ parse_navigation_command(PromptAsk(line, "")) = None
          /\ questionnaire_input(line))
         => /\ question_index' = question_index + 1
            /\ current_page' = "questionnaire"
            /\ IF Strip(line) # ""
               THEN question_index \in DOMAIN user_answers'
               ELSE user_answers' = user_answers
            /\ OtherEntriesKept(question_index)]_vars

\* the summary of the answers given so far
SummarySoFar ==
    create_answers_summary(Questions, answers_list(Questions, user_answers))

\* the bullet line of question index i starts with this text
BulletOf(i) == Bullet \o " " \o Questions[i + 1] \o ": "

\* C4: "next" and "skip" cause the same transition, index + 1 with the
\* Answer Set and everything else unchanged; a question passed without an
\* entry has no bullet line in the answers summary, and once question 0 is
\* answered and question 1 skipped the summary is the one bullet of
\* question 0.
C4_NextSkip ==
    /\ [](current_page \in {"questionnaire", "prompt_result"}
            => /\ \A i \in 0..(question_index - 1) :
                    (i < Len(Questions) /\ i \notin DOMAIN user_answers)
                    => ~Contains(SummarySoFar, BulletOf(i))
               /\ (DOMAIN user_answers = {0} /\ question_index >= 2)
                    => /\ SummarySoFar = BulletOf(0) \o user_answers[0]
                       /\ CountLines(SummarySoFar, Bullet \o " ") = 1)
    /\ [][\A line \in QuestionnaireLines :
            (/\ OnQuestion
             /\ Typed(line, "next") \/ Typed(line, "skip")
             /\ questionnaire_input(line))
            => /\ question_index' = question_index + 1
               /\ UNCHANGED <<current_page, user_answers, current_category,
                              current_subcategory, is_custom_category,
                              running>>]_vars

\* question 0 of code/script was answered and question 1 passed over
C4_Witness ==
    /\ current_page = "questionnaire"
    /\ current_category = "code"
    /\ current_subcategory = "script"
    /\ question_index = 2
    /\ user_answers = (0 :> "Automate log rotation")

\* the line is handled as an answer, as "next" or as "skip"
Advances(line) ==
    /\ ~get_user_choice_asks_again(line)
    /\ get_user_choice(line) \notin {"quit", "home", "restart", "back"}

C6_Select ==
    [][/\ (/\ running
           /\ current_page = "subcategory_selection"
           /\ current_category \in DOMAIN CATEGORIES)
          => \A line \in SubcategoryLines :
               LET subcategories == CATEGORIES[current_category]
                   choice == PromptChoice(line, None)
               IN (/\ PromptAccepts(line,
                                    subcategory_choices(current_category),
                                    None)
                   /\ subcategory_input(line))
                  => CASE choice = "back" ->
                            /\ current_page' = "category_selection"
                            /\ UNCHANGED <<user_answers, question_index>>
                       [] choice = "home" ->
                            /\ current_page' = "main_menu"
                            /\ UNCHANGED <<user_answers, question_index>>
                       [] choice = "quit" -> TRUE
                       [] OTHER ->
                            /\ Restarted'
                            /\ current_subcategory' \in Range(subcategories)
                            /\ ~is_custom_category'
       /\ (/\ running
           /\ current_page = "custom_subcategory_selection"
           /\ current_category \in Range(CustomKeys)
           /\ CustomSubcategories(current_category) # << >>)
          => \A line \in CustomLines :
               LET subcat_keys == CustomSubcategories(current_category)
                   choice == PromptChoice(line, None)
               IN (/\ PromptAccepts(line, NumberChoices(Len(subcat_keys))
                                      \cup {"home", "back", "quit"}, None)
                   /\ custom_subcategory_input(line))
                  => CASE choice = "back" ->
                            /\ current_page' = "custom_category_selection"
                            /\ UNCHANGED <<user_answers, question_index>>
                       [] choice = "home" ->
                            /\ current_page' = "main_menu"
                            /\ UNCHANGED <<user_answers, question_index>>
                       [] choice = "quit" -> TRUE
                       [] OTHER ->
                            /\ Restarted'
                            /\ current_subcategory' \in Range(subcat_keys)
                            /\ is_custom_category']_vars

\* the subcategory page is shown while answers and an index are left over
\* from an earlier questionnaire
C6_Witness ==
    /\ current_page = "subcategory_selection"
    /\ current_category \in DOMAIN CATEGORIES
    /\ user_answers # << >>
    /\ question_index > 0

(***************************************************************************)
(* Properties of the prompt generator (SpecGen)                            *)
(***************************************************************************)

\* the questions of the call examined
CallQuestions ==
    get_questions(custom_questions, pg_call.category, pg_call.subcategory,
                  pg_call.is_custom)

\* the question indices with an answer that is neither empty nor the
\* placeholder "Not specified"
AnsweredIndices ==
    {i \in DOMAIN pg_call.user_answers :
        /\ i < Len(CallQuestions)
        /\ pg_call.user_answers[i] # ""
        /\ pg_call.user_answers[i] # NotSpecified}

\* the bullet line of question index i in the summary
BulletLine(i) ==
    Bullet \o " " \o CallQuestions[i + 1] \o ": " \o pg_call.user_answers[i]

\* C7: the prompt built by generate_prompt holds as many bullet lines as
\* there are question indices with an answer that is neither empty nor
\* "Not specified": one line per such index, in question order, and none
\* for the others.
C7_Bullets ==
    pg_prompt # None
    => /\ CountLines(pg_prompt, Bullet \o " ") = Cardinality(AnsweredIndices)
       /\ \A i \in AnsweredIndices :
            /\ Cardinality(Occurrences(pg_prompt, BulletLine(i))) = 1
            /\ \A j \in AnsweredIndices :
                 i < j => FirstOccurrence(pg_prompt, BulletLine(i))
                            < FirstOccurrence(pg_prompt, BulletLine(j))

\* a prompt was built from an Answer Set whose first entry is an answer and
\* whose second is the placeholder
C7_Witness ==
    /\ pg_prompt # None
    /\ DOMAIN pg_call.user_answers = {0, 1}
    /\ pg_call.user_answers[0] = "Make it absurdist"
    /\ pg_call.user_answers[1] = NotSpecified

\* the groups whose keywords occur in the question
MatchingGroups(question) ==
    {g \in 1..Len(KeywordGroups) : GroupMatches(g, question)}

\* the line "- <label of group g>: <answer to question index i>"
RequirementLine(g, i) ==
    "- " \o KeywordGroups[g].label \o ": " \o pg_call.user_answers[i]

FirstGroup(question) ==
    CHOOSE g \in MatchingGroups(question) :
        \A h \in MatchingGroups(question) : g <= h

\* the answered question indices whose question matches some group
IntegratedIndices ==
    {i \in AnsweredIndices : MatchingGroups(CallQuestions[i + 1]) # {}}

RequirementsHeader == "\n\nSpecific Requirements:\n"

\* the lines that follow the header "Specific Requirements:", or "" when
\* the prompt has no such section
RequirementsSection ==
    IF Contains(pg_prompt, RequirementsHeader)
    THEN SubSeq(pg_prompt,
                FirstOccurrence(pg_prompt, RequirementsHeader)
                    + Len(RequirementsHeader),
                Len(pg_prompt))
    ELSE ""

C9_NoPlaceholder ==
    pg_prompt # None
    => \A n \in 1..Len(CallQuestions) :
         ~Contains(pg_prompt, "{answer_" \o IntToStr(n) \o "}")

\* C10: get_questions returns the list of the catalog for a pair the
\* catalog holds, and for every pair it does not hold, whether the category
\* or only the subcategory is missing, the one list of the ten generic
\* questions; a custom pair gets its uploaded questions, or the generic
\* list when none were uploaded.
C10_Questions ==
    /\ Len(get_generic_questions) = 10
    /\ pg_questions # << >>
       => pg_questions =
            IF pg_call.is_custom
            THEN IF HasEntry(custom_questions, pg_call.category,
                             pg_call.subcategory)
                 THEN custom_questions[pg_call.category][pg_call.subcategory]
                 ELSE get_generic_questions
            ELSE IF /\ pg_call.category \in DOMAIN questions_data
                    /\ pg_call.subcategory
                          \in DOMAIN questions_data[pg_call.category]
                 THEN questions_data[pg_call.category][pg_call.subcategory]
                 ELSE get_generic_questions

\* get_questions served the generic list for a subcategory missing from a
\* category the catalog holds
C10_Witness ==
    /\ pg_questions = get_generic_questions
    /\ ~pg_call.is_custom
    /\ pg_call.category = "code"
    /\ pg_call.subcategory = "script"

(***************************************************************************)
(* Properties of the generator with loaded catalogs (SpecCat)              *)
(***************************************************************************)

\* the catalogs of the call examined
CallQuestionCatalog == load_questions(pg_call.questions_file)

CallTemplateCatalog == load_templates(pg_call.templates_file)

\* the pair of the call has an entry in the catalog
InCatalog(catalog) ==
    /\ pg_call.category \in DOMAIN catalog
    /\ pg_call.subcategory \in DOMAIN catalog[pg_call.category]

\* the template and the questions the call is to use: the entry of the
\* catalog, or the generic one, each decided by its own catalog
ExpectedTemplate ==
    IF InCatalog(CallTemplateCatalog)
    THEN CallTemplateCatalog[pg_call.category][pg_call.subcategory]
    ELSE get_generic_template

ExpectedQuestions ==
    IF InCatalog(CallQuestionCatalog)
    THEN CallQuestionCatalog[pg_call.category][pg_call.subcategory]
    ELSE get_generic_questions

\* the text before the placeholder {answers_summary} of the template, with
\* the category and subcategory filled in
ExpectedOpening ==
    LET cut == FirstOccurrence(ExpectedTemplate, "{answers_summary}") IN
    Replace(Replace(SubSeq(ExpectedTemplate, 1, cut - 1),
                    "{category}", Title(pg_call.category)),
            "{subcategory}", Title(pg_call.subcategory))

\* C11: generate_prompt yields a prompt for every pair, whatever the two
\* catalogs hold: the prompt opens with the template of the template
\* catalog, or with the generic template when that catalog has no entry,
\* and its bullets carry the questions of the question catalog, or the
\* generic questions when that catalog has no entry; either fallback is
\* taken whether or not the other one is.
C11_Fallbacks ==
    pg_prompt # None
    => /\ StartsWith(pg_prompt, ExpectedOpening)
       /\ \A i \in DOMAIN pg_call.user_answers :
            (/\ pg_call.user_answers[i] # ""
             /\ pg_call.user_answers[i] # NotSpecified)
            => Contains(pg_prompt,
                        Bullet \o " " \o ExpectedQuestions[i + 1] \o ": "
                            \o pg_call.user_answers[i])

\* a prompt was built for code/script, which the loaded question catalog
\* holds and the template catalog does not
C11_Witness ==
    /\ pg_prompt # None
    /\ pg_call.category = "code"
    /\ pg_call.subcategory = "script"
    /\ InCatalog(CallQuestionCatalog)
    /\ ~InCatalog(CallTemplateCatalog)
    /\ pg_call.user_answers # << >>

(***************************************************************************)
(* Repeated generation (SpecGen)                                           *)
(***************************************************************************)

QuitChosen(line, next_line) ==
    /\ PromptAccepts(line, ResultChoices, "copy")
    /\ \/ PromptChoice(line, "copy") = "quit"
       \/ /\ PromptChoice(line, "copy") = "copy"
          /\ PromptAccepts(next_line, NextChoices, "home")
          /\ PromptChoice(next_line, "home") = "quit"

\* the step of a page handler that read "quit" (or its shortcut where the
\* page has one) and called quit_app
QuitIssued ==
    /\ running
    /\ \/ /\ current_page = "main_menu"
          /\ \E line \in MainMenuLines :
                /\ PromptAccepts(line, MainMenuChoices, "start")
                /\ PromptChoice(line, "start") \in {"quit", "q"}
                /\ main_menu_input(line)
       \/ /\ current_page = "readme"
          /\ \E line \in ReadmeLines :
                /\ PromptChoice(line, "home") = "quit"
                /\ readme_input(line)
       \/ /\ current_page = "category_selection"
          /\ \E line \in CategoryLines :
                /\ PromptAccepts(line, CategoryChoices, None)
                /\ PromptChoice(line, None) = "quit"
                /\ category_input(line)
       \/ /\ current_page = "subcategory_selection"
          /\ current_category \in DOMAIN CATEGORIES
          /\ \E line \in SubcategoryLines :
                /\ PromptAccepts(line, subcategory_choices(current_category),
                                 None)
                /\ PromptChoice(line, None) = "quit"
                /\ subcategory_input(line)
       \/ /\ OnQuestion
          /\ \E line \in QuestionnaireLines :
                /\ ~get_user_choice_asks_again(line)
                /\ get_user_choice(line) = "quit"
                /\ questionnaire_input(line)
       \/ /\ current_page = "prompt_result"
          /\ \E line \in ResultLines, next_line \in ResultLines :
                /\ QuitChosen(line, next_line)
                /\ result_input(line, next_line)
       \/ /\ current_page = "custom_category_selection"
          /\ custom_categories # << >>
          /\ \E line \in CustomLines :
                /\ Strip(line) = "quit"
                /\ custom_category_input(line)
       \/ /\ current_page = "custom_subcategory_selection"
          /\ current_category \in Range(CustomKeys)
          /\ \E line \in CustomLines :
                /\ Strip(line) = "quit"
                /\ custom_subcategory_input(line)
       \/ /\ current_page = "settings"
          /\ \E line \in SettingsLines :
                /\ PromptAccepts(line, SettingsChoices, "1")
                /\ PromptChoice(line, "1") = "quit"
                /\ settings_input(line)

\* the loop goes on at the main menu with the questionnaire data untouched
ResetToMainMenu ==
    /\ running'
    /\ current_page' = "main_menu"
    /\ UNCHANGED <<user_answers, question_index, current_category,
                   current_subcategory>>

\* the subcategory page is handled with a category that is not built in:
\* CATEGORIES[self.current_category] raises KeyError
RaisesKeyError ==
    /\ running
    /\ current_page = "subcategory_selection"
    /\ current_category \notin DOMAIN CATEGORIES
    /\ show_subcategory_selection

C14_InterruptQuits ==
    [][keyboard_interrupt => (~running' /\ exit_code' = 0)]_vars

\* C15: once "quit" is issued on a page the process exits and no further
\* page is shown, whether or not quit_app could print the session summary.
C15_QuitExits ==
    [][QuitIssued => ~running']_vars

(***************************************************************************)
(* Selection by number or name, shortcuts and invalid input (Spec)         *)
(***************************************************************************)

\* the lines of the two selection pages, trimmed and in lower case
LowerLine ==
    [line \in CategoryLines \cup SubcategoryLines |-> Lower(Strip(line))]

\* the entry of the category page that a line names, by its number or by its
\* name in any letter case; None when it names no entry
CategoryEntry(line) ==
    LET word == LowerLine[line] IN
    IF word \in DOMAIN category_map THEN category_map[word]
    ELSE IF word \in {"6", "custom"} THEN "custom"
    ELSE None

\* the names of the subcategories of each built-in category, in lower case
lower_subcategory_list ==
    [category \in DOMAIN CATEGORIES |->
        [i \in 1..Len(CATEGORIES[category]) |->
            Lower(CATEGORIES[category][i])]]

\* the 1-based number of the subcategory of the category that a line names,
\* by its number or by its name in any letter case; 0 when it names none
SubcategoryEntry(category, line) ==
    LET word == LowerLine[line]
        names == lower_subcategory_list[category]
        named == {i \in 1..Len(names) :
                    word = IntToStr(i) \/ word = names[i]}
    IN IF named = {} THEN 0 ELSE CHOOSE i \in named : TRUE

OnCategoryPage == running /\ current_page = "category_selection"

OnSubcategoryPage ==
    /\ running
    /\ current_page = "subcategory_selection"
    /\ current_category \in DOMAIN CATEGORIES

\* C16: on the category and the subcategory page, two lines that name the
\* same listed entry, one by its 1-based number and one by its name in any
\* letter case, are handled by the same step: the same category or
\* subcategory is set and the same page follows.
C16_NumberOrName ==
    [][/\ OnCategoryPage
          => \A l1 \in CategoryLines, l2 \in CategoryLines :
               (CategoryEntry(l1) # None
                /\ CategoryEntry(l1) = CategoryEntry(l2))
               => (category_input(l1) <=> category_input(l2))
       /\ OnSubcategoryPage
          => \A l1 \in SubcategoryLines, l2 \in SubcategoryLines :
               (SubcategoryEntry(current_category, l1) # 0
                /\ SubcategoryEntry(current_category, l1)
                      = SubcategoryEntry(current_category, l2))
               => (subcategory_input(l1) <=> subcategory_input(l2))]_vars

\* the documented shortcuts of the commands
DocumentedShortcuts ==
    [s |-> "start", q |-> "quit", h |-> "home", b |-> "back", n |-> "next",
     r |-> "restart"]

\* the command a line stands for: the word typed, in lower case, or the
\* command of the shortcut typed
CommandOf(line) ==
    LET word == Lower(Strip(line)) IN
    IF word \in DOMAIN DocumentedShortcuts
    THEN DocumentedShortcuts[word] ELSE word

\* C17: commands are matched whatever their letter case, and a documented
\* shortcut is handled by the same step as its full word on every page that
\* accepts the command: start and quit on the main menu; quit, home,
\* restart, back and next at a question; restart, home and quit on the
\* result page.
C17_SameTransition ==
    [][/\ (running /\ current_page = "main_menu")
          => \A l1 \in MainMenuLines, l2 \in MainMenuLines :
               (CommandOf(l1) \in {"start", "quit"}
                /\ CommandOf(l1) = CommandOf(l2))
               => (main_menu_input(l1) <=> main_menu_input(l2))
       /\ OnQuestion
          => \A l1 \in QuestionnaireLines, l2 \in QuestionnaireLines :
               (CommandOf(l1) \in {"quit", "home", "restart", "back", "next"}
                /\ CommandOf(l1) = CommandOf(l2))
               => (questionnaire_input(l1) <=> questionnaire_input(l2))
       /\ (running /\ current_page = "prompt_result")
          => \A l1 \in ResultLines, l2 \in ResultLines :
               (CommandOf(l1) \in {"restart", "home", "quit"}
                /\ CommandOf(l1) = CommandOf(l2))
               => (result_input(l1, "") <=> result_input(l2, ""))]_vars

\* the questionnaire data and the page are what they were
SelectionUnchanged ==
    UNCHANGED <<current_page, current_category, current_subcategory,
                user_answers, question_index>>

\* C18: a line typed on the category or the subcategory page that is neither
\* a command of the page nor the number or the name of a listed entry is
\* asked again on the same page: the page, the category, the subcategory,
\* the Answer Set and the question index stay as they were, and the page
\* does not become the main menu.
C18_Reprompt ==
    [][/\ OnCategoryPage
          => \A line \in CategoryLines :
               (LowerLine[line] \notin CategoryChoices
                /\ category_input(line))
               => SelectionUnchanged
       /\ OnSubcategoryPage
          => \A line \in SubcategoryLines :
               (LowerLine[line] \notin subcategory_choices(current_category)
                /\ subcategory_input(line))
               => SelectionUnchanged]_vars

\* the category page shown again after "back", with a category selected and
\* a questionnaire behind it, where a line such as "7" is not a choice
C18_Witness ==
    /\ OnCategoryPage
    /\ current_category = "image"
    /\ current_subcategory = "fantasy"
    /\ user_answers # << >>
    /\ \E line \in CategoryLines : LowerLine[line] \notin CategoryChoices

\* C19: "home" typed at a question or chosen on the result page, at its
\* first prompt or after "copy", leaves the Answer Set empty.
C19_HomeResets ==
    [][/\ OnQuestion
          => \A line \in QuestionnaireLines :
               (/\ ~get_user_choice_asks_again(line)
                /\ get_user_choice(line) = "home"
                /\ questionnaire_input(line))
               => user_answers' = << >>
       /\ (running /\ current_page = "prompt_result")
          => \A line \in ResultLines, next_line \in ResultLines :
               (/\ PromptAccepts(line, ResultChoices, "copy")
                /\ \/ PromptChoice(line, "copy") = "home"
                   \/ /\ PromptChoice(line, "copy") = "copy"
                      /\ PromptAccepts(next_line, NextChoices, "home")
                      /\ PromptChoice(next_line, "home") = "home"
                /\ result_input(line, next_line))
               => user_answers' = << >>]_vars

(***************************************************************************)
(* Properties of the error classifier (SpecErr)                            *)
(***************************************************************************)

\* C20: for every error type and message, among them "FileNotFoundError"
\* with the message "test file not found", the code that classify_error
\* returns is a key of ERROR_CODES.
C20_KnownCode ==
    \A i \in DOMAIN ec_codes : ec_codes[i] \in DOMAIN ERROR_CODES

(***************************************************************************)
(* The index and the keys of the Answer Set (Spec)                         *)
(***************************************************************************)

\* C23: whenever the page is Questionnaire or Result, the question index is
\* between 0 and the number of questions of the current category and
\* subcategory, and every key of the Answer Set is at least 0 and strictly
\* below the question index.
C23_IndexAndKeys ==
    current_page \in {"questionnaire", "prompt_result"}
    => /\ 0 <= question_index
       /\ question_index <= Len(Questions)
       /\ \A k \in DOMAIN user_answers : 0 <= k /\ k < question_index

\* a question was passed without an answer after one that was answered, and
\* the questionnaire has questions left
C23_Witness ==
    /\ running
    /\ current_page = "questionnaire"
    /\ DOMAIN user_answers = {0}
    /\ question_index = 2
    /\ question_index < Len(Questions)

(***************************************************************************)
(* The Specific Requirements section (SpecGen)                             *)
(***************************************************************************)

\* the questions of the fallback catalog, the generic questions and the
\* stored custom questions
KnownQuestions ==
    UNION {UNION {Range(questions_data[c][sc]) :
                    sc \in DOMAIN questions_data[c]} :
             c \in DOMAIN questions_data}
        \cup Range(get_generic_questions)
        \cup UNION {UNION {Range(StoredQuestions[c][sc]) :
                             sc \in DOMAIN StoredQuestions[c]} :
                      c \in DOMAIN StoredQuestions}

\* for each known question the first keyword group that matches it, in the
\* order of the chain, or 0 when none matches
first_group ==
    [q \in KnownQuestions |->
        IF MatchingGroups(q) = {} THEN 0 ELSE FirstGroup(q)]

\* no answered question of the call matches a keyword group
NoneIntegrated ==
    \A i \in AnsweredIndices : first_group[CallQuestions[i + 1]] = 0

\* the template of the call with its placeholders substituted: the prompt
\* before integrate_specific_answers
SubstitutedTemplate ==
    substitute(template_from(templates_data, custom_templates,
                             pg_call.category, pg_call.subcategory,
                             pg_call.is_custom),
               pg_call.category, pg_call.subcategory, pg_call.timestamp,
               create_answers_summary(
                   CallQuestions,
                   answers_list(CallQuestions, pg_call.user_answers)))

\* C27: the prompt ends with a section "Specific Requirements:" exactly
\* when some answered question matches a keyword group: then it is the
\* substituted template followed by the header and at least one line, and
\* otherwise, as for an empty Answer Set, it is the substituted template
\* and nothing else.
C27_SectionIffMatch ==
    pg_prompt # None
    => LET section == RequirementsSection IN
       IF NoneIntegrated
       THEN /\ pg_prompt = SubstitutedTemplate
            /\ ~Contains(pg_prompt, "Specific Requirements:")
       ELSE /\ pg_prompt = SubstitutedTemplate \o RequirementsHeader
                              \o section
            /\ CountLines(section, "- ") >= 1

\* a prompt was built from answers to questions that match no keyword
\* group: it has bullets and no section
C27_Witness ==
    /\ pg_prompt # None
    /\ AnsweredIndices # {}
    /\ NoneIntegrated
    /\ Contains(pg_prompt, Bullet)

\* C28: the section holds at most one line per answered question: under
\* each label there are as many lines as answered questions whose first
\* matching group, in the order style, audience, purpose, features,
\* technology, colour, size, tone/mood, is that of the label, so the lines
\* are never more than the answered questions.
C28_OneLinePerAnswer ==
    pg_prompt # None
    => LET section == RequirementsSection
           answered == AnsweredIndices
       IN /\ \A g \in 1..Len(KeywordGroups) :
               CountLines(section, "- " \o KeywordGroups[g].label \o ": ")
                 = Cardinality({i \in answered :
                                  first_group[CallQuestions[i + 1]] = g})
          /\ CountLines(section, "- ") <= Cardinality(answered)

\* a prompt was built from two answers to generic questions, one of which
\* matches more than one keyword group
C28_Witness ==
    /\ pg_prompt # None
    /\ ~pg_call.is_custom
    /\ Cardinality(AnsweredIndices) = 2
    /\ \E i \in AnsweredIndices :
          Cardinality(MatchingGroups(CallQuestions[i + 1])) > 1

(***************************************************************************)
(* "back" at the first question of a custom category (Spec)                *)
(***************************************************************************)

\* "back", under any spelling, typed at the first question of a
\* questionnaire that was started from a custom category
CustomBackAtFirst ==
    /\ running
    /\ current_page = "questionnaire"
    /\ is_custom_category
    /\ question_index = 0
    /\ ~questionnaire_complete
    /\ \E line \in QuestionnaireLines :
          /\ ~get_user_choice_asks_again(line)
          /\ get_user_choice(line) = "back"
          /\ questionnaire_input(line)

\* C25: in a questionnaire started from a custom category, "back" at index 0
\* leads to a subcategory page for the current category, and handling that
\* page neither raises nor puts the session on the main menu through the
\* error handler of run.
C25_CustomBack ==
    [][/\ CustomBackAtFirst
          => current_page' \in {"subcategory_selection",
                                "custom_subcategory_selection"}
       /\ is_custom_category => ~RaisesKeyError]_vars

(***************************************************************************)
(* The lines read at a question (SpecNav)                                  *)
(***************************************************************************)

\* lines typed at the question prompt: every command word and every
\* shortcut that parse_navigation_command knows, and answer texts
NavLines ==
    {"quit", "q", "home", "h", "restart", "r", "back", "b", "next", "n",
     "skip", "sk", "help", "?", "save", "s", "S", "Save", "",
     "a <b> 'c'"}

\* a questionnaire as show_subcategory_selection starts it, for any
\* built-in category and subcategory
InitNav ==
    /\ current_page = "questionnaire"
    /\ user_answers = << >>
    /\ current_category \in DOMAIN CATEGORIES
    /\ current_subcategory \in Range(CATEGORIES[current_category])
    /\ question_index = 0
    /\ is_custom_category = FALSE
    /\ running = TRUE
    /\ exit_code = 0
    /\ custom_categories = StoredCategories
    /\ custom_questions = StoredQuestions
    /\ custom_templates = StoredTemplates
    /\ pg_call = NoCall
    /\ pg_questions = << >>
    /\ pg_prompt = None
    /\ ec_call = NoError
    /\ ec_codes = << >>
    /\ history = << >>
    /\ history_clock = 0
    /\ InitStandalone

\* show_questionnaire asks the current question and handles the line
type_line ==
    /\ running
    /\ current_page = "questionnaire"
    /\ ~questionnaire_complete
    /\ \E line \in NavLines :
          /\ StoresAnswer(line)
                => Cardinality(DOMAIN user_answers) < MaxAnswers
          /\ questionnaire_input(line)

NextNav == type_line

SpecNav == InitNav /\ [][NextNav]_vars

\* the words and shortcuts that are commands at a question
QuestionCommands ==
    {"quit", "home", "restart", "back", "next", "skip", "help",
     "q", "h", "r", "b", "n", "sk", "?"}

\* C24: at a question, a line that is not empty and is none of quit, home,
\* restart, back, next, skip, help, q, h, r, b, n, sk, ? (in any letter
\* case) is stored in the Answer Set, at the question index, as the text
\* typed after sanitisation, and the index moves on by one.
C24_OnlyCommands ==
    [][OnQuestion
       => \A line \in NavLines :
            (/\ Strip(line) # ""
             /\ Lower(Strip(line)) \notin QuestionCommands
             /\ questionnaire_input(line))
            => /\ user_answers' = DictPut(user_answers, question_index,
                                          sanitize_input(Strip(line)))
               /\ question_index' = question_index + 1]_vars

(***************************************************************************)
(* HistoryManager (utils/history_manager.py) and its harness (SpecHist)    *)
(***************************************************************************)

\* self.max_history
max_history == 50

\* the most entries created in one behaviour
MaxHistoryAdds == 52

\* entries are deleted while at most this many were created
MaxDeleteClock == 3

\* add_to_history: the entry gets the id len(history) + 1 and the time of
\* the call, is put first and the list is cut to max_history entries; the
\* content, the category and the counts of the entry are left out
add_to_history ==
    LET entry == [id |-> Len(history) + 1, created_at |-> history_clock + 1]
        inserted == <<entry>> \o history
    IN /\ history' = IF Len(inserted) > max_history
                     THEN SubSeq(inserted, 1, max_history)
                     ELSE inserted
       /\ history_clock' = history_clock + 1

\* the indices of the entries that carry the id
EntriesWithId(prompt_id) == {i \in DOMAIN history : history[i].id = prompt_id}

\* get_prompt_by_id: the index of the first entry with the id, 0 for None
get_prompt_by_id(prompt_id) ==
    IF EntriesWithId(prompt_id) = {} THEN 0
    ELSE CHOOSE i \in EntriesWithId(prompt_id) :
            \A j \in EntriesWithId(prompt_id) : i <= j

\* delete_from_history keeps the entries whose id differs
delete_from_history(prompt_id) ==
    /\ history' = SelectSeq(history, LAMBDA entry : entry.id # prompt_id)
    /\ UNCHANGED history_clock

clear_history ==
    /\ history' = << >>
    /\ UNCHANGED history_clock

\* get_recent_history(limit)
get_recent_history(limit) ==
    SubSeq(history, 1, IF Len(history) < limit THEN Len(history) ELSE limit)

\* the choices of the prompt of the history page
HistoryChoices ==
    {"view", "copy", "search", "clear", "home", "v", "c", "s", "cl", "h"}

\* lines typed at the prompts of the history page
HistoryLines == {"", "home", "h", "view", "c", "s", "clear", "cl", "y", "n",
                 "Home", "1"}

\* display_history_page once the lines were read: with no entry to show it
\* waits for Enter and returns None; otherwise "home" returns "main_menu",
\* "clear" does after a "y", and view, copy and search return None. On
\* "main_menu" show_history sets the page, on None the page stays
history_input(line, confirm) ==
    IF get_recent_history(10) = << >>
    THEN UNCHANGED vars
    ELSE IF ~PromptAccepts(line, HistoryChoices, "home")
    THEN UNCHANGED vars
    ELSE LET choice == PromptChoice(line, "home") IN
         CASE choice \in {"home", "h"} -> GoTo("main_menu")
           [] choice \in {"clear", "cl"} ->
                IF PromptChoice(confirm, "n") = "y"
                THEN /\ clear_history
                     /\ current_page' = "main_menu"
                     /\ UNCHANGED <<user_answers, current_category,
                                    current_subcategory, question_index,
                                    is_custom_category, process, standalone,
                                    custom_data, generator, classifier>>
                ELSE UNCHANGED vars
           [] OTHER -> UNCHANGED vars

\* show_prompt_result records the prompt it generated
record_prompt ==
    /\ running
    /\ current_page = "main_menu"
    /\ history_clock < MaxHistoryAdds
    /\ add_to_history
    /\ UNCHANGED <<session, process, standalone, custom_data, generator,
                   classifier>>

\* a call of delete_from_history, with an id of the history or another one
call_delete_from_history ==
    /\ running
    /\ current_page = "main_menu"
    /\ history_clock <= MaxDeleteClock
    /\ \E prompt_id \in 0..(Len(history) + 1) :
          delete_from_history(prompt_id)
    /\ UNCHANGED <<session, process, standalone, custom_data, generator,
                   classifier>>

\* "history" typed on the main menu
open_history ==
    /\ running
    /\ current_page = "main_menu"
    /\ main_menu_input("history")

\* show_history
show_history_page ==
    /\ running
    /\ current_page = "history"
    /\ \E line \in HistoryLines, confirm \in HistoryLines :
          history_input(line, confirm)

\* Enter is pressed, or "home" is typed, on the history page
leave_history ==
    /\ running
    /\ current_page = "history"
    /\ \E line \in {"", "home", "h"} : history_input(line, "")

NextHist ==
    \/ record_prompt
    \/ call_delete_from_history
    \/ open_history
    \/ show_history_page

SpecHist == Init /\ [][NextHist]_vars

\* the user of the history page goes on pressing Enter or typing "home"
SpecHistFair == SpecHist /\ WF_vars(leave_history)

\* C29: after any sequence of add_to_history, delete_from_history and
\* clear_history the history holds at most max_history entries, the most
\* recently created first, and no two entries share an id, so that
\* get_prompt_by_id finds, for the id of an entry, that entry and no other.
C29_HistoryWellFormed ==
    /\ Len(history) <= max_history
    /\ \A i \in DOMAIN history, j \in DOMAIN history :
          i < j => /\ history[i].created_at > history[j].created_at
                   /\ history[i].id # history[j].id
    /\ \A i \in DOMAIN history : get_prompt_by_id(history[i].id) = i

\* C26: the history page can always be left: whatever the stored history
\* holds, nothing included, a user who presses Enter or types "home" on the
\* history page gets to the main menu.
C26_HistoryLeft ==
    (running /\ current_page = "history") ~> (current_page = "main_menu")

(***************************************************************************)
(* The standalone application PromptGBTOS (promptgbt_os.py) and its        *)
(* specification SpecGBT                                                   *)
(***************************************************************************)

\* self.subcategories
subcategories ==
    [c \in {"code", "image", "music", "text", "video"} |->
        CASE c = "code" ->
               <<"Web App", "Mobile App", "Script", "Backend", "Debug",
                 "Code Analysis">>
          [] c = "image" ->
               <<"Fantasy", "Social Media", "Meme", "Business", "Marketing",
                 "Infographic", "Character">>
          [] c = "music" ->
               <<"EDM", "Hip Hop/Rap", "R&B/Soul", "Country", "Experimental",
                 "Vocal", "Commercial", "Voice Over">>
          [] c = "text" ->
               <<"Business", "Blog", "Social Media", "Academic", "Fiction",
                 "Non-Fiction", "Marketing">>
          [] c = "video" ->
               <<"Short Film", "Commercial", "Animation", "Tutorial",
                 "Music Video", "Documentary", "Social Media">>]

\* the questions of each list that a questionnaire asks
QuestionsKept == 2

\* the key and the first questions of every entry of the dict display that
\* is assigned to self.question_templates, in the order written
question_template_items ==
    << [key |-> "Web App",
        questions |->
        << "What is the primary purpose of your web application?",
          "Who is your target audience (age, profession, technical level)?",
          "What main features should the app include?" >>],
       [key |-> "Mobile App",
        questions |->
        << "What platform should the app target (iOS, Android, cross-platform)?",
          "What is the main functionality of your mobile app?",
          "Who is your target user demographic?" >>],
       [key |-> "Script",
        questions |->
        << "What is the primary purpose of your script?",
          "What programming language should be used?",
          "What operating system will it run on?" >>],
       [key |-> "Backend",
        questions |->
        << "What type of backend architecture (REST API, GraphQL, microservices)?",
          "What programming language and framework should be used?",
          "What database technology is preferred (SQL, NoSQL, hybrid)?" >>],
       [key |-> "Debug",
        questions |->
        << "What programming language is the code written in?",
          "What type of application or system needs debugging?",
          "What specific error messages or symptoms are occurring?" >>],
       [key |-> "Code Analysis",
        questions |->
        << "What programming language should be analyzed?",
          "What type of analysis is needed (security, performance, quality, style)?",
          "What is the size and scope of the codebase?" >>],
       [key |-> "Fantasy",
        questions |->
        << "What type of fantasy setting (medieval, modern, futuristic)?",
          "Who or what is the main subject of the image?",
          "What mood or atmosphere should the image convey?" >>],
       [key |-> "Social Media",
        questions |->
        << "What social media platform is this image for?",
          "What is the main message or call-to-action?",
          "Who is your target audience demographic?" >>],
       [key |-> "Meme",
        questions |->
        << "What meme format or template should be used?",
          "What's the main joke or punchline?",
          "Who is your target audience (age group, interests)?" >>],
       [key |-> "Business",
        questions |->
        << "What type of business image is needed (presentation, marketing, report)?",
          "What industry or business sector does this represent?",
          "Who is the target audience (executives, employees, customers, investors)?" >>],
       [key |-> "Marketing",
        questions |->
        << "What marketing channel will this image be used for?",
          "What is the primary marketing objective (awareness, conversion, retention)?",
          "Who is your ideal customer persona?" >>],
       [key |-> "Infographic",
        questions |->
        << "What main topic or subject should the infographic cover?",
          "Who is your target audience and what's their knowledge level?",
          "What key data points or statistics to highlight?" >>],
       [key |-> "Character",
        questions |->
        << "What type of character (human, animal, fantasy creature, robot)?",
          "What is the character's age, gender, and background?",
          "What personality traits should be visually apparent?" >>],
       [key |-> "EDM",
        questions |->
        << "What EDM subgenre (house, techno, dubstep, trance, drum & bass)?",
          "What BPM range do you prefer?",
          "What energy level (chill, moderate, high-energy, intense)?" >>],
       [key |-> "Hip Hop/Rap",
        questions |->
        << "What hip hop subgenre (trap, boom bap, mumble rap, conscious, drill)?",
          "What BPM range fits your style?",
          "Should it have heavy bass or more balanced mix?" >>],
       [key |-> "R&B/Soul",
        questions |->
        << "What R&B style (classic soul, contemporary R&B, neo-soul, alternative R&B)?",
          "What vocal range and style should be featured?",
          "Should it be slow and sensual or upbeat and energetic?" >>],
       [key |-> "Country",
        questions |->
        << "What country subgenre (traditional, modern, pop country, bluegrass, outlaw)?",
          "What instruments should be featured (guitar, banjo, fiddle, steel guitar)?",
          "Should it tell a story or focus on emotions?" >>],
       [key |-> "Experimental",
        questions |->
        << "What experimental approach (sound design, unconventional structure, genre fusion)?",
          "What traditional music boundaries are you breaking?",
          "Should it challenge listener expectations or comfort zones?" >>],
       [key |-> "Vocal",
        questions |->
        << "What vocal style (classical, pop, jazz, folk, experimental)?",
          "What vocal range and tessitura to feature?",
          "Should it be solo or include background vocals?" >>],
       [key |-> "Commercial",
        questions |->
        << "What product, service, or brand is being advertised?",
          "What target demographic and psychographic profile?",
          "What call-to-action or desired consumer behavior?" >>],
       [key |-> "Voice Over",
        questions |->
        << "What type of voice over (commercial, narration, character, educational)?",
          "Who is the target audience demographic?",
          "What tone and personality should the voice convey?" >>],
       [key |-> "Business",
        questions |->
        << "What type of business document (proposal, report, email, presentation)?",
          "Who is your target audience (executives, clients, employees, investors)?",
          "What is the main objective or call-to-action?" >>],
       [key |-> "Blog",
        questions |->
        << "What blog topic or niche area?",
          "Who is your target reader persona?",
          "What blog post type (how-to, listicle, opinion, review, news)?" >>],
       [key |-> "Social Media",
        questions |->
        << "What social media platform (Facebook, Instagram, Twitter, LinkedIn, TikTok)?",
          "What type of post (text, image, video, story, reel, thread)?",
          "Who is your target audience demographic?" >>],
       [key |-> "Academic",
        questions |->
        << "What academic discipline or field of study?",
          "What type of academic writing (essay, research paper, thesis, dissertation)?",
          "What academic level (undergraduate, graduate, doctoral)?" >>],
       [key |-> "Fiction",
        questions |->
        << "What genre (fantasy, romance, mystery, sci-fi, literary, horror)?",
          "What target audience age group and demographic?",
          "What length (short story, novella, novel, flash fiction)?" >>],
       [key |-> "Non-Fiction",
        questions |->
        << "What non-fiction category (memoir, biography, self-help, history, science)?",
          "Who is your target reader demographic?",
          "What expertise or credentials do you bring to the topic?" >>],
       [key |-> "Marketing",
        questions |->
        << "What marketing channel or medium (email, web, print, social, video)?",
          "What stage of the customer journey (awareness, consideration, decision, retention)?",
          "Who is your ideal customer persona?" >>],
       [key |-> "Short Film",
        questions |->
        << "What genre (drama, comedy, horror, sci-fi, documentary, experimental)?",
          "What is the target length (under 5 min, 5-15 min, 15-30 min)?",
          "Who is your target audience demographic?" >>],
       [key |-> "Commercial",
        questions |->
        << "What product, service, or brand is being advertised?",
          "What is the target demographic and psychographic profile?",
          "What is the main selling point or value proposition?" >>],
       [key |-> "Animation",
        questions |->
        << "What animation style (2D, 3D, stop-motion, mixed media)?",
          "What target audience age group and interests?",
          "What story genre (adventure, comedy, educational, fantasy)?" >>],
       [key |-> "Tutorial",
        questions |->
        << "What skill or topic is being taught?",
          "What is the target audience skill level (beginner, intermediate, advanced)?",
          "What learning objectives should be achieved?" >>],
       [key |-> "Music Video",
        questions |->
        << "What music genre and song characteristics?",
          "Who is the target audience demographic?",
          "What is the song's mood and emotional content?" >>],
       [key |-> "Documentary",
        questions |->
        << "What subject or topic is the documentary exploring?",
          "What angle or perspective will you take on the topic?",
          "Who is your target audience?" >>],
       [key |-> "Social Media",
        questions |->
        << "What social media platform (TikTok, Instagram Reels, YouTube Shorts, Facebook)?",
          "What video length constraint (15 sec, 30 sec, 1 min, longer)?",
          "Who is your target audience demographic?" >>] >>

\* self.question_templates: a dict display keeps, for a key that is written
\* more than once, the value written last
question_templates ==
    [key \in {question_template_items[i].key :
                i \in DOMAIN question_template_items} |->
        LET last == CHOOSE i \in DOMAIN question_template_items :
                      /\ question_template_items[i].key = key
                      /\ \A j \in DOMAIN question_template_items :
                            question_template_items[j].key = key => j <= i
        IN SubSeq(question_template_items[last].questions, 1, QuestionsKept)]

\* self.question_templates.get(subcategory, [])
question_templates_get(subcategory) ==
    IF subcategory \in DOMAIN question_templates
    THEN question_templates[subcategory] ELSE << >>

\* what SpecGBT leaves alone: the state of the main application
main_app == <<session, storage, custom_data, generator, classifier>>

\* get_user_input: the line without surrounding whitespace
get_user_input(line) == Strip(line)

\* handle_navigation returns True
handle_navigation_handles(user_input) ==
    Lower(user_input) \in {"quit", "q", "3", "home", "h"}

\* handle_navigation when it handles the input: sys.exit(0), or the main
\* menu; position is where the caller goes on after True was returned
handle_navigation(user_input, position) ==
    IF Lower(user_input) \in {"quit", "q", "3"}
    THEN sys_exit(0)
    ELSE /\ gbt_current_screen' = "main_menu"
         /\ gbt_position' = position
         /\ UNCHANGED <<gbt_current_category, gbt_current_subcategory,
                        gbt_current_question_index, gbt_answers,
                        gbt_questions, process, main_app>>

\* self.current_screen = screen
set_screen(screen) ==
    /\ gbt_current_screen' = screen
    /\ UNCHANGED <<gbt_current_category, gbt_current_subcategory,
                   gbt_current_question_index, gbt_answers, gbt_questions,
                   gbt_position, process, main_app>>

\* lines typed on the main menu of the standalone application
GbtMainMenuLines ==
    {"1", "start", "s", "2", "readme", "r", "3", "quit", "q", "", "x",
     "Start"}

\* run, on the main menu, once the line was read; "quit" leaves the loop,
\* run and main return and the process ends with status 0
run_main_menu(line) ==
    LET user_input == get_user_input(line) IN
    IF user_input \in {"1", "start", "s"}
    THEN set_screen("category_selection")
    ELSE IF user_input \in {"2", "readme", "r"}
    THEN UNCHANGED vars
    ELSE IF user_input \in {"3", "quit", "q"}
    THEN sys_exit(0)
    ELSE UNCHANGED vars

\* lines typed on the category screen
GbtCategoryLines ==
    {"1", "2", "3", "4", "5", "code", "image", "music", "text", "video",
     "Image", "home", "h", "quit", "q", "", "6", "0", "back"}

\* run, on the category screen, once the line was read; its category_map
\* has the keys and the values of the one of the main application
run_category_selection(line) ==
    LET user_input == get_user_input(line) IN
    IF handle_navigation_handles(user_input)
    THEN handle_navigation(user_input, "run")
    ELSE IF Lower(user_input) \in DOMAIN category_map
    THEN /\ gbt_current_category' = category_map[Lower(user_input)]
         /\ gbt_current_screen' = "subcategory_selection"
         /\ UNCHANGED <<gbt_current_subcategory, gbt_current_question_index,
                        gbt_answers, gbt_questions, gbt_position, process,
                        main_app>>
    ELSE UNCHANGED vars

\* run_questionnaire up to its loop: without questions it returns and run
\* sets the main menu
run_questionnaire(subcategory) ==
    /\ gbt_current_subcategory' = subcategory
    /\ gbt_questions' = question_templates_get(subcategory)
    /\ IF question_templates_get(subcategory) = << >>
       THEN /\ gbt_current_screen' = "main_menu"
            /\ UNCHANGED <<gbt_current_question_index, gbt_answers,
                           gbt_position>>
       ELSE /\ gbt_current_question_index' = 0
            /\ gbt_answers' = << >>
            /\ gbt_position' = "run_questionnaire"
            /\ UNCHANGED gbt_current_screen
    /\ UNCHANGED <<gbt_current_category, process, main_app>>

\* the subcategories whose lower-case name contains the lower-case input
MatchingSubcategories(subcats, user_input) ==
    {i \in DOMAIN subcats : Contains(Lower(subcats[i]), Lower(user_input))}

\* lines typed on the subcategory screen
GbtSubcategoryLines ==
    {"1", "2", "3", "4", "6", "7", "8", "9", "0", "", "e", "xyz", "back",
     "home", "h", "quit", "q", "Web App", "script", "Business", "business",
     "Social Media", "Marketing", "Commercial", "Voice Over", "Fiction",
     "Non-Fiction", "Short Film", "EDM"}

\* run, on the subcategory screen, once the line was read
run_subcategory_selection(line) ==
    LET user_input == get_user_input(line)
        subcats == subcategories[gbt_current_category]
    IN IF handle_navigation_handles(user_input)
       THEN handle_navigation(user_input, "run")
       ELSE IF Lower(user_input) = "back"
       THEN set_screen("category_selection")
       ELSE IF IsDigit(user_input)
       THEN IF /\ 0 <= StrToInt(user_input) - 1
               /\ StrToInt(user_input) - 1 < Len(subcats)
            THEN run_questionnaire(subcats[StrToInt(user_input)])
            ELSE UNCHANGED vars
       ELSE IF MatchingSubcategories(subcats, user_input) # {}
       THEN run_questionnaire(
              subcats[CHOOSE i \in MatchingSubcategories(subcats, user_input) :
                        \A j \in MatchingSubcategories(subcats, user_input) :
                            i <= j])
       ELSE UNCHANGED vars

\* lines typed at a question of the standalone application
GbtQuestionLines ==
    {"", "an answer", "back", "Back", "next", "restart", "home", "h",
     "quit", "q", "3"}

\* the loop of run_questionnaire once the line was read; after the last
\* answer the prompt is generated and the results are shown
run_questionnaire_answer(line) ==
    LET user_input == get_user_input(line) IN
    IF handle_navigation_handles(user_input)
    THEN handle_navigation(user_input, "run")
    ELSE /\ CASE Lower(user_input) = "back" ->
                   /\ gbt_current_question_index' =
                        IF gbt_current_question_index > 0
                        THEN gbt_current_question_index - 1
                        ELSE gbt_current_question_index
                   /\ UNCHANGED <<gbt_answers, gbt_position>>
              [] Lower(user_input) = "next" ->
                   /\ gbt_current_question_index' =
                        IF gbt_current_question_index
                             < Len(gbt_questions) - 1
                        THEN gbt_current_question_index + 1
                        ELSE gbt_current_question_index
                   /\ UNCHANGED <<gbt_answers, gbt_position>>
              [] Lower(user_input) = "restart" ->
                   /\ gbt_current_question_index' = 0
                   /\ gbt_answers' = << >>
                   /\ UNCHANGED gbt_position
              [] OTHER ->
                   /\ gbt_answers' = DictPut(gbt_answers,
                                             gbt_current_question_index,
                                             user_input)
                   /\ gbt_current_question_index' =
                        gbt_current_question_index + 1
                   /\ gbt_position' =
                        IF gbt_current_question_index + 1
                             < Len(gbt_questions)
                        THEN "run_questionnaire" ELSE "show_results"
         /\ UNCHANGED <<gbt_current_screen, gbt_current_category,
                        gbt_current_subcategory, gbt_questions, process,
                        main_app>>

\* lines typed under the results
GbtResultLines == {"", "save", "restart", "home", "h", "quit", "q", "3", "x"}

\* the loop under the results once the line was read; "restart" runs the
\* questionnaire again and returns when it returns
run_questionnaire_result(line) ==
    LET user_input == get_user_input(line) IN
    IF handle_navigation_handles(user_input)
    THEN handle_navigation(user_input, "run")
    ELSE IF Lower(user_input) = "restart"
    THEN /\ gbt_questions' = question_templates_get(gbt_current_subcategory)
         /\ gbt_current_question_index' = 0
         /\ gbt_answers' = << >>
         /\ gbt_position' = "run_questionnaire"
         /\ UNCHANGED <<gbt_current_screen, gbt_current_category,
                        gbt_current_subcategory, process, main_app>>
    ELSE UNCHANGED vars

on_main_menu ==
    /\ running
    /\ gbt_position = "run"
    /\ gbt_current_screen = "main_menu"
    /\ \E line \in GbtMainMenuLines : run_main_menu(line)

on_category_selection ==
    /\ running
    /\ gbt_position = "run"
    /\ gbt_current_screen = "category_selection"
    /\ \E line \in GbtCategoryLines : run_category_selection(line)

on_subcategory_selection ==
    /\ running
    /\ gbt_position = "run"
    /\ gbt_current_screen = "subcategory_selection"
    /\ \E line \in GbtSubcategoryLines : run_subcategory_selection(line)

on_question ==
    /\ running
    /\ gbt_position = "run_questionnaire"
    /\ \E line \in GbtQuestionLines : run_questionnaire_answer(line)

on_results ==
    /\ running
    /\ gbt_position = "show_results"
    /\ \E line \in GbtResultLines : run_questionnaire_result(line)

NextGBT ==
    \/ on_main_menu
    \/ on_category_selection
    \/ on_subcategory_selection
    \/ on_question
    \/ on_results

SpecGBT == Init /\ [][NextGBT]_vars

(***************************************************************************)
(* Properties of the standalone application (SpecGBT)                      *)
(***************************************************************************)

\* the category screen waits for a line
OnGbtCategory ==
    /\ running
    /\ gbt_position = "run"
    /\ gbt_current_screen = "category_selection"

\* the subcategory screen waits for a line
OnGbtSubcategory ==
    /\ running
    /\ gbt_position = "run"
    /\ gbt_current_screen = "subcategory_selection"

\* the categories as the category screen numbers them
GbtCategoryNames == <<"code", "image", "music", "text", "video">>

\* C21: in the standalone application, for every k in 1..5 the line k and
\* the name of the k-th category both select that category and lead to the
\* subcategory screen, and for every listed subcategory number k the line k
\* and the name of the k-th subcategory both select that subcategory and
\* start its questionnaire.
C21_GbtNumberOrName ==
    [][/\ OnGbtCategory
          => \A k \in DOMAIN GbtCategoryNames :
               \A line \in {IntToStr(k), GbtCategoryNames[k]} :
                  run_category_selection(line)
                  => /\ gbt_current_category' = GbtCategoryNames[k]
                     /\ gbt_current_screen' = "subcategory_selection"
       /\ OnGbtSubcategory
          => \A k \in DOMAIN subcategories[gbt_current_category] :
               \A line \in {IntToStr(k),
                            subcategories[gbt_current_category][k]} :
                  run_subcategory_selection(line)
                  => /\ gbt_current_subcategory'
                          = subcategories[gbt_current_category][k]
                     /\ gbt_position' = "run_questionnaire"]_vars

\* the line is no command of the subcategory screen, no number of a listed
\* subcategory and no name of a listed subcategory
GbtInvalidSubcategoryLine(line) ==
    LET user_input == Lower(Strip(line))
        subcats == subcategories[gbt_current_category]
    IN /\ user_input \notin {"quit", "q", "home", "h", "back"}
       /\ user_input \notin NumberChoices(Len(subcats))
       /\ user_input \notin {Lower(subcats[i]) : i \in DOMAIN subcats}

\* C22: in the standalone application, a line typed on the subcategory
\* screen that is no command, no valid number and no name of a listed
\* subcategory, the empty line included, is asked again on the same screen:
\* the screen and the subcategory stay and no questionnaire is started.
C22_GbtReprompt ==
    [][OnGbtSubcategory
       => \A line \in GbtSubcategoryLines :
            (GbtInvalidSubcategoryLine(line)
             /\ run_subcategory_selection(line))
            => UNCHANGED <<gbt_current_screen, gbt_current_subcategory,
                           gbt_position, gbt_questions, gbt_answers,
                           gbt_current_question_index>>]_vars

\* where the entries of a category start in the dict display: the entries
\* follow the comments CODE, IMAGE, MUSIC, TEXT and VIDEO CATEGORY in the
\* order of self.subcategories
SectionStart ==
    [c \in DOMAIN subcategories |->
        CASE c = "code" -> 0
          [] c = "image" -> Len(subcategories["code"])
          [] c = "music" -> Len(subcategories["code"])
                              + Len(subcategories["image"])
          [] c = "text" -> Len(subcategories["code"])
                             + Len(subcategories["image"])
                             + Len(subcategories["music"])
          [] c = "video" -> Len(subcategories["code"])
                              + Len(subcategories["image"])
                              + Len(subcategories["music"])
                              + Len(subcategories["text"])]

\* the questions written for the subcategory under its own category
QuestionsWrittenFor(category, subcategory) ==
    LET k == CHOOSE i \in DOMAIN subcategories[category] :
               subcategories[category][i] = subcategory
    IN SubSeq(question_template_items[SectionStart[category] + k].questions,
              1, QuestionsKept)

\* C30: in the standalone application the questions of a questionnaire are
\* those written for the pair of the current category and subcategory:
\* Business, Marketing, Social Media and Commercial, which several
\* categories list, have in each category the questions of that category.
C30_GbtOwnQuestions ==
    gbt_position \in {"run_questionnaire", "show_results"}
    => gbt_questions = QuestionsWrittenFor(gbt_current_category,
                                           gbt_current_subcategory)

====
